---- MODULE Spec2Model ----
(***************************************************************************)
(* Model of the dbchecker reconciliation engine:                           *)
(*   dbchecker/data_comparator.py  row fingerprinting, row matching,       *)
(*                                 field differences, per-table result     *)
(*   dbchecker/uuid_handler.py     normalize_row_for_comparison            *)
(*   dbchecker/comparator.py       compare(), connections, sequential and  *)
(*                                 parallel table orchestration            *)
(*   dbchecker/database_connector.py  connection handle, execute_query     *)
(***************************************************************************)
EXTENDS Integers, Sequences, FiniteSets, TLC

VARIABLES
    row1, row2,            \* the two rows handed to get_row_hash / identify_differences
    hash1, hash2,          \* their fingerprints, once pc = "hashed"
    rows1, rows2,          \* data1 / data2 of compare_table_data
    exclude_columns,       \* exclusion_info['all_excluded']
    matching_result,       \* what find_matching_rows returned, once pc = "compared"
    table_comparison,      \* the TableDataComparison, once pc = "compared"
    pc,                    \* position of the caller / of the main thread in compare()
    options,               \* ComparisonOptions of the DatabaseComparator
    db,                    \* the two database files: what opening and reading them does
    table_names,           \* common_tables, in list order
    conn1, conn2,          \* DatabaseComparator.conn1 / conn2: NoConn or a handle
    connections,           \* the DatabaseConnector objects created so far
    task,                  \* per table: state, thread and arguments of its comparison
    table_results,         \* table_results of the data stage
    total_differences,     \* total_differences of the data stage
    data_outcome,          \* how the data stage ended: "none", "returned", "raised"
    error,                 \* the exception being propagated, NoError if none
    outcome,               \* how compare() ended: "none", "returned", "raised"
    table_structure,       \* TableStructure of the table being classified
    exclusion_info,        \* what get_excluded_columns_info returned (or that it raised)
    previous_info,         \* exclusion_info of the run before the options were changed
    uuid_statistics,       \* TableDataComparison.uuid_statistics
    field_differences,     \* what identify_differences returned, once pc = "differenced"
    normalized_comparison, \* what compare_normalized_unique_ids returned
    unique_id,             \* the value handed to _normalize_unique_id
    normalized_id,         \* what _normalize_unique_id returned
    summary,               \* the ComparisonSummary of _generate_summary
    steps,                 \* the steps of compare_table_data, or the calls on the
                           \* DatabaseComparator, performed so far, in order
    uuid_handler           \* the UUIDHandler shared by the DatabaseComparator

rowVars   == <<row1, row2, hash1, hash2, field_differences>>
matchVars == <<rows1, rows2, matching_result, table_comparison>>
runVars   == <<options, db, table_names, conn1, conn2, connections, task,
               table_results, total_differences, data_outcome, error, outcome>>
moreVars  == <<summary, steps, uuid_handler>>
trackVars == <<normalized_comparison, unique_id, normalized_id, moreVars>>
classVars == <<table_structure, exclusion_info, previous_info, uuid_statistics, trackVars>>
vars      == <<row1, row2, hash1, hash2, rows1, rows2, exclude_columns,
               matching_result, table_comparison, pc, options, db, table_names,
               conn1, conn2, connections, task, table_results, total_differences,
               data_outcome, error, outcome, table_structure, exclusion_info,
               previous_info, uuid_statistics, field_differences,
               normalized_comparison, unique_id, normalized_id,
               summary, steps, uuid_handler>>

None == [t |-> "None"]

(* Values of the variables a specification does not use.                   *)
RunIdle ==
    /\ options = None /\ db = None /\ table_names = <<>>
    /\ conn1 = 0 /\ conn2 = 0 /\ connections = None /\ task = None
    /\ table_results = None /\ total_differences = 0
    /\ data_outcome = "none" /\ error = None /\ outcome = "none"

MoreIdle ==
    /\ summary = None /\ steps = <<>> /\ uuid_handler = None

TrackIdle ==
    /\ normalized_comparison = None /\ unique_id = <<>> /\ normalized_id = <<>>
    /\ MoreIdle

ClassIdle ==
    /\ table_structure = None /\ exclusion_info = None
    /\ previous_info = None /\ uuid_statistics = None
    /\ TrackIdle

DataIdle ==
    /\ row1 = <<>> /\ row2 = <<>> /\ hash1 = <<>> /\ hash2 = <<>> /\ field_differences = {}
    /\ rows1 = <<>> /\ rows2 = <<>> /\ exclude_columns = {}
    /\ matching_result = None /\ table_comparison = None

-----------------------------------------------------------------------------
(* Scalar values.  A Python value is a record with a type tag t, an integer *)
(* payload n and a text payload s (a sequence of characters).               *)

PyNone    == [t |-> "null",  n |-> 0, s |-> <<>>]
PyInt(k)  == [t |-> "int",   n |-> k, s |-> <<>>]
PyStr(cs) == [t |-> "str",   n |-> 0, s |-> cs]
PyInf     == [t |-> "float", n |-> 0, s |-> <<"i", "n", "f">>]   \* float('inf')

(* Column names of the model, in Python's string order (used by sorted()).  *)
ColumnOrder == <<"Note", "a_id", "b_id", "code", "created_at", "ext_uuid", "id",
                 "name", "score", "token", "updated_by">>

ColRank(c) == CHOOSE i \in 1..Len(ColumnOrder) : ColumnOrder[i] = c

(* field_name.endswith('_id') over the column names of the model.           *)
EndsWithId(c) == c \in {"a_id", "b_id"}

(* A row is a Python dict: a sequence of cells [k, v] in insertion order,   *)
(* with distinct keys.                                                      *)
Cell(k, v) == [k |-> k, v |-> v]

Keys(row) == {row[i].k : i \in 1..Len(row)}

HasKey(row, c) == \E i \in 1..Len(row) : row[i].k = c

Get(row, c) == IF HasKey(row, c)
               THEN row[CHOOSE i \in 1..Len(row) : row[i].k = c].v
               ELSE PyNone

-----------------------------------------------------------------------------
(* str.strip(): remove leading and trailing whitespace.                     *)

IsSpace(ch) == ch \in {" ", "\t", "\n"}

RECURSIVE LStrip(_)
LStrip(cs) == IF cs # <<>> /\ IsSpace(Head(cs)) THEN LStrip(Tail(cs)) ELSE cs

RECURSIVE RStrip(_)
RStrip(cs) == IF cs # <<>> /\ IsSpace(cs[Len(cs)])
              THEN RStrip(SubSeq(cs, 1, Len(cs) - 1)) ELSE cs

Strip(cs) == RStrip(LStrip(cs))

(* UUIDHandler.normalize_row_for_comparison: drop the listed columns and    *)
(* strip every non-empty string value; insertion order is kept.             *)
NormalizeValue(v) == IF v.t = "str" THEN PyStr(Strip(v.s)) ELSE v

normalize_row_for_comparison(row, uuid_columns) ==
    LET kept == SelectSeq(row, LAMBDA c : c.k \notin uuid_columns)
    IN  [i \in 1..Len(kept) |-> Cell(kept[i].k, NormalizeValue(kept[i].v))]

-----------------------------------------------------------------------------
(* sorted(items): the (key, value) pairs ordered by key (keys are distinct).*)

RECURSIVE SortedItems(_)
SortedItems(row) ==
    IF row = <<>> THEN <<>>
    ELSE LET m    == CHOOSE i \in 1..Len(row) :
                       \A j \in 1..Len(row) : ColRank(row[i].k) <= ColRank(row[j].k)
             rest == [j \in 1..(Len(row) - 1) |-> IF j < m THEN row[j] ELSE row[j + 1]]
         IN  <<row[m]>> \o SortedItems(rest)

(* json.dumps(value, default=str) of one scalar: the JSON token written.    *)
JsonToken(v) ==
    CASE v.t = "null"  -> <<"literal", "null">>
      [] v.t = "int"   -> <<"number", ToString(v.n)>>
      [] v.t = "float" -> <<"literal", "Infinity">>
      [] v.t = "str"   -> <<"string", v.s>>

(* json.dumps(sorted_items): a JSON array of [key, value] arrays.  md5 is   *)
(* taken to be injective on these strings, so the digest is the string.     *)
JsonDumps(items) == [i \in 1..Len(items) |-> <<items[i].k, JsonToken(items[i].v)>>]

-----------------------------------------------------------------------------
(* DataComparator.get_row_hash                                              *)

StandardKeyNames == <<"id", "pk", "primary_key">>

(* first loop: the first of id / pk / primary_key that is a key of the row  *)
StandardKeyFields(row) ==
    LET hits == SelectSeq(StandardKeyNames, LAMBDA f : HasKey(row, f))
    IN  IF hits = <<>> THEN <<>> ELSE <<Head(hits)>>

(* second loop: the first key, in the row's own order, that ends in '_id'   *)
(* and is not excluded                                                      *)
SuffixKeyFields(row, excl) ==
    LET hits == SelectSeq(row, LAMBDA c : EndsWithId(c.k) /\ c.k \notin excl)
    IN  IF hits = <<>> THEN <<>> ELSE <<Head(hits).k>>

KeyFields_none(row, excl) == <<>>

KeyFields(row, excl) ==
    IF StandardKeyFields(row) # <<>> THEN StandardKeyFields(row)
    ELSE SuffixKeyFields(row, excl)

get_row_hash(row, excl) ==
    LET key_fields == KeyFields(row, excl)
        sorted_items ==
            IF key_fields = <<>>
            THEN SortedItems(normalize_row_for_comparison(row, excl))
            ELSE SortedItems([i \in 1..Len(key_fields) |->
                                 Cell(key_fields[i], Get(row, key_fields[i]))])
    IN  JsonDumps(sorted_items)

-----------------------------------------------------------------------------
(* DataComparator.find_matching_rows.  A row occurrence is named by its     *)
(* index in rows1 (or rows2), so that duplicates stay distinguishable; the  *)
(* row itself is rows1[i].                                                  *)

(* list.extend / append over a loop: the concatenation of the lists added   *)
(* by the iterations, in iteration order                                    *)
RECURSIVE Flatten(_)
Flatten(ss) == IF ss = <<>> THEN <<>> ELSE Head(ss) \o Flatten(Tail(ss))

RowHashes(rows, excl) == [i \in 1..Len(rows) |-> get_row_hash(rows[i], excl)]

(* keys of hash_map in iteration order: distinct hashes, first occurrence   *)
RECURSIVE HashMapKeys(_)
HashMapKeys(hs) ==
    IF hs = <<>> THEN <<>>
    ELSE LET init == HashMapKeys(SubSeq(hs, 1, Len(hs) - 1))
             h    == hs[Len(hs)]
         IN  IF \E i \in 1..Len(init) : init[i] = h THEN init ELSE Append(init, h)

(* hash_map[h] as a list: the occurrences with hash h, in encounter order   *)
HashMapRows(hs, h) ==
    SelectSeq([i \in 1..Len(hs) |-> i], LAMBDA i : hs[i] = h)

Min(a, b) == IF a <= b THEN a ELSE b

MatchOneToOne_firstOfSecond(rows_1, rows_2) ==
    [i \in 1..Len(rows_1) |-> <<rows_1[i], rows_2[1]>>]

(* "Match rows one-to-one": rows_1[i] with rows_2[i] for i < min_length     *)
MatchOneToOne(rows_1, rows_2) ==
    [i \in 1..Min(Len(rows_1), Len(rows_2)) |-> <<rows_1[i], rows_2[i]>>]

Unmatched_dropped(rows_h, min_length) == <<>>

Unmatched_fromHead(rows_h, min_length) == SubSeq(rows_h, 1, Len(rows_h) - min_length)

(* "Add unmatched rows to respective lists": rows_h[min_length:]            *)
Unmatched(rows_h, min_length) == SubSeq(rows_h, min_length + 1, Len(rows_h))

find_matching_rows(rs1, rs2, excl) ==
    LET hs1 == RowHashes(rs1, excl)
        hs2 == RowHashes(rs2, excl)
        hash_map1 == HashMapKeys(hs1)
        hash_map2 == HashMapKeys(hs2)
        InMap1(h) == \E i \in 1..Len(hs1) : hs1[i] = h
        InMap2(h) == \E j \in 1..Len(hs2) : hs2[j] = h
        rows_1(h) == HashMapRows(hs1, h)
        rows_2(h) == HashMapRows(hs2, h)
        min_length(h) == Min(Len(rows_1(h)), Len(rows_2(h)))
        \* first loop, for the hashes of hash_map1 that are in hash_map2;
        \* these are the processed_hashes
        Pairs(h)    == IF InMap2(h) THEN MatchOneToOne(rows_1(h), rows_2(h)) ELSE <<>>
        Surplus1(h) == IF InMap2(h) THEN Unmatched(rows_1(h), min_length(h)) ELSE <<>>
        Surplus2(h) == IF InMap2(h) THEN Unmatched(rows_2(h), min_length(h)) ELSE <<>>
        \* second and third loop, for the hashes not in processed_hashes
        Only1(h) == IF InMap2(h) THEN <<>> ELSE rows_1(h)
        Only2(h) == IF InMap1(h) THEN <<>> ELSE rows_2(h)
    IN  [matched_pairs |-> Flatten([k \in 1..Len(hash_map1) |-> Pairs(hash_map1[k])]),
         only_in_db1   |-> Flatten([k \in 1..Len(hash_map1) |-> Surplus1(hash_map1[k])])
                           \o Flatten([k \in 1..Len(hash_map1) |-> Only1(hash_map1[k])]),
         only_in_db2   |-> Flatten([k \in 1..Len(hash_map1) |-> Surplus2(hash_map1[k])])
                           \o Flatten([k \in 1..Len(hash_map2) |-> Only2(hash_map2[k])])]

-----------------------------------------------------------------------------
(* DataComparator._values_equal                                             *)

IsNumber(v) == v.t \in {"int", "float"}

(* abs(value1 - value2) < 1e-10.  Integers: true iff equal.  With an        *)
(* infinite operand the difference is nan (inf - inf) or infinite, and the  *)
(* comparison is False.                                                     *)
AbsDiffBelowTolerance(v1, v2) ==
    IF v1.t = "float" \/ v2.t = "float" THEN FALSE ELSE v1.n = v2.n

values_equal(v1, v2) ==
    IF v1.t = "null" /\ v2.t = "null" THEN TRUE
    ELSE IF v1.t = "null" \/ v2.t = "null" THEN FALSE
    ELSE IF v1.t = "str" /\ v2.t = "str" THEN Strip(v1.s) = Strip(v2.s)
    ELSE IF IsNumber(v1) /\ IsNumber(v2) THEN AbsDiffBelowTolerance(v1, v2)
    ELSE v1 = v2

identify_differences_noExclusion(r1, r2, excl) ==
    {[field_name |-> c, value_db1 |-> Get(r1, c), value_db2 |-> Get(r2, c)] :
        c \in {d \in Keys(r1) \cup Keys(r2) : ~values_equal(Get(r1, d), Get(r2, d))}}

(* DataComparator.identify_differences.  The code walks a Python set of     *)
(* column names, so the order of the returned list is not determined; the   *)
(* model keeps the FieldDifferences as a set.                               *)
identify_differences(r1, r2, excl) ==
    {[field_name |-> c, value_db1 |-> Get(r1, c), value_db2 |-> Get(r2, c)] :
        c \in {d \in (Keys(r1) \cup Keys(r2)) \ excl :
                  ~values_equal(Get(r1, d), Get(r2, d))}}

(* DataComparator._create_row_identifier: the first three non-excluded      *)
(* key=value parts in key order, or a synthetic row_<n> identifier.         *)
create_row_identifier(row, excl) ==
    LET parts == SelectSeq(SortedItems(row), LAMBDA c : c.k \notin excl)
    IN  IF parts # <<>> THEN SubSeq(parts, 1, Min(3, Len(parts)))
        ELSE <<Cell("row_", PyNone)>>

(* DataComparator.compare_table_data, from the call of find_matching_rows   *)
(* on: one RowDifference per matched pair with differences.  The field pair *)
(* records which matched pair a RowDifference was built from.               *)
RowDifferences(rs1, rs2, excl, matched_pairs) ==
    LET One(p) ==
            LET differences == identify_differences(rs1[p[1]], rs2[p[2]], excl)
            IN  IF differences # {}
                THEN <<[row_identifier |-> create_row_identifier(rs1[p[1]], excl),
                        differences    |-> differences,
                        pair           |-> p]>>
                ELSE <<>>
    IN  Flatten([k \in 1..Len(matched_pairs) |-> One(matched_pairs[k])])

compare_table_data_countsAllPairs(rs1, rs2, excl, m) ==
    LET rows_with_differences == RowDifferences(rs1, rs2, excl, m.matched_pairs)
    IN  [row_count_db1 |-> Len(rs1),
         row_count_db2 |-> Len(rs2),
         matching_rows |-> Len(m.matched_pairs),
         rows_only_in_db1 |-> m.only_in_db1,
         rows_only_in_db2 |-> m.only_in_db2,
         rows_with_differences |-> rows_with_differences]

compare_table_data(rs1, rs2, excl, m) ==
    LET rows_with_differences == RowDifferences(rs1, rs2, excl, m.matched_pairs)
    IN  [row_count_db1 |-> Len(rs1),
         row_count_db2 |-> Len(rs2),
         matching_rows |-> Len(m.matched_pairs) - Len(rows_with_differences),
         rows_only_in_db1 |-> m.only_in_db1,
         rows_only_in_db2 |-> m.only_in_db2,
         rows_with_differences |-> rows_with_differences]

-----------------------------------------------------------------------------
(* Row-level specification: two rows and an excluded-column list are drawn  *)
(* from bounded sets and fingerprinted.                                     *)

MaxCols == 2

RowColumns == {"id", "a_id", "b_id", "name"}
RowValues  == {PyInt(1), PyInt(2)}
RowExcludes == {{}, {"id"}, {"a_id"}, {"id", "name"}}

RowsOfLen(n) ==
    {r \in [1..n -> {Cell(k, v) : k \in RowColumns, v \in RowValues}] :
        \A i, j \in 1..n : i # j => r[i].k # r[j].k}

RowSet == UNION {RowsOfLen(n) : n \in 0..MaxCols}

InitRow ==
    /\ row1 \in RowSet
    /\ row2 \in RowSet
    /\ exclude_columns \in RowExcludes
    /\ hash1 = <<>> /\ hash2 = <<>> /\ field_differences = {}
    /\ rows1 = <<>> /\ rows2 = <<>>
    /\ matching_result = None /\ table_comparison = None
    /\ pc = "input"
    /\ RunIdle
    /\ ClassIdle

HashRows ==
    /\ pc = "input"
    /\ pc' = "hashed"
    /\ hash1' = get_row_hash(row1, exclude_columns)
    /\ hash2' = get_row_hash(row2, exclude_columns)
    /\ UNCHANGED <<row1, row2, field_differences, exclude_columns, matchVars, runVars,
                   classVars>>

(* DataComparator.identify_differences on the two rows                      *)
IdentifyDifferences ==
    /\ pc = "input"
    /\ pc' = "differenced"
    /\ field_differences' = identify_differences(row1, row2, exclude_columns)
    /\ UNCHANGED <<row1, row2, hash1, hash2, exclude_columns, matchVars, runVars,
                   classVars>>

NextRow == HashRows \/ IdentifyDifferences

SpecRow == InitRow /\ [][NextRow]_vars

(* The row as a mapping, without its insertion order and without the        *)
(* columns of excl.                                                         *)
NonExcludedContent(row, excl) ==
    {<<row[i].k, row[i].v>> : i \in {j \in 1..Len(row) : row[j].k \notin excl}}

SameNonExcludedContent(r1, r2, excl) ==
    NonExcludedContent(r1, excl) = NonExcludedContent(r2, excl)

(* r2 holds the cells of r1 in some other (or the same) insertion order.    *)
IsPermutationOf(r1, r2) ==
    /\ Len(r1) = Len(r2)
    /\ NonExcludedContent(r1, {}) = NonExcludedContent(r2, {})

(* C2: two rows of the same columns with the same non-excluded columns and  *)
(* equal values there have equal fingerprints, whatever they hold in        *)
(* excluded columns.                                                        *)
C2_FingerprintIgnoresExcludedColumns ==
    (/\ pc = "hashed"
     /\ {row1[i].k : i \in 1..Len(row1)} = {row2[i].k : i \in 1..Len(row2)}
     /\ SameNonExcludedContent(row1, row2, exclude_columns))
        => hash1 = hash2

(* C3: a row and any permutation of its key insertion order have the same   *)
(* fingerprint.                                                             *)
C3_FingerprintIgnoresKeyOrder ==
    (pc = "hashed" /\ IsPermutationOf(row1, row2)) => hash1 = hash2

(* C19: identify_differences reports no excluded column, and reports every  *)
(* non-excluded column of the union of both rows' columns whose values are  *)
(* unequal exactly once, with the two values.                               *)
C19_DifferencesSkipExcludedColumns ==
    pc = "differenced" =>
        /\ \A d \in field_differences : d.field_name \notin exclude_columns
        /\ \A c \in (Keys(row1) \cup Keys(row2)) \ exclude_columns :
              Get(row1, c) # Get(row2, c) =>
                  /\ Cardinality({d \in field_differences : d.field_name = c}) = 1
                  /\ \A d \in field_differences :
                        d.field_name = c =>
                            /\ d.value_db1 = Get(row1, c)
                            /\ d.value_db2 = Get(row2, c)

C19_Witness ==
    /\ pc = "differenced"
    /\ Keys(row1) # Keys(row2)
    /\ \E c \in exclude_columns :
          HasKey(row1, c) /\ HasKey(row2, c) /\ Get(row1, c) # Get(row2, c)
    /\ \E c \in Keys(row2) \ Keys(row1) : \E d \in field_differences : d.field_name = c

-----------------------------------------------------------------------------
(* Value-level specification: one text or scalar value per side and the     *)
(* case_sensitive option are drawn from bounded sets and compared.          *)

ValuePool == {PyNone, PyInt(1), PyStr(<<"x">>), PyStr(<<"x", " ">>), PyStr(<<"y">>),
              PyStr(<<"X">>), PyStr(<<" ", "X">>), PyStr(<<"Y">>)}

InitValues ==
    /\ \E v \in ValuePool : row1 = <<Cell("name", v)>>
    /\ \E v \in ValuePool : row2 = <<Cell("name", v)>>
    /\ options \in [case_sensitive : BOOLEAN]
    /\ exclude_columns = {}
    /\ hash1 = <<>> /\ hash2 = <<>> /\ field_differences = {}
    /\ rows1 = <<>> /\ rows2 = <<>>
    /\ matching_result = None /\ table_comparison = None
    /\ pc = "input"
    /\ db = None /\ table_names = <<>>
    /\ conn1 = 0 /\ conn2 = 0 /\ connections = None /\ task = None
    /\ table_results = None /\ total_differences = 0
    /\ data_outcome = "none" /\ error = None /\ outcome = "none"
    /\ ClassIdle

NextValues == IdentifyDifferences

SpecValues == InitValues /\ [][NextValues]_vars

(* str.lower() on the letters of the model's text values                    *)
LowerChar(ch) == IF ch = "X" THEN "x" ELSE IF ch = "Y" THEN "y" ELSE ch
LowerText(cs) == [i \in 1..Len(cs) |-> LowerChar(cs[i])]

(* C20: text equality honours the case-sensitivity flag.  Case-sensitive    *)
(* (the default): two texts are equal iff their trimmed forms are           *)
(* identical.  Case-insensitive: two texts whose trimmed forms differ only  *)
(* in letter case are equal and give no FieldDifference.                    *)
C20_TextEqualityHonoursCaseFlag ==
    (pc = "differenced" /\ row1[1].v.t = "str" /\ row2[1].v.t = "str") =>
        LET text1 == Strip(row1[1].v.s)
            text2 == Strip(row2[1].v.s)
        IN  /\ options.case_sensitive => (field_differences = {} <=> text1 = text2)
            /\ (~options.case_sensitive /\ LowerText(text1) = LowerText(text2))
                  => field_differences = {}

-----------------------------------------------------------------------------
(* Table-level specification: the rows of one table on both sides and the   *)
(* excluded-column list are drawn from bounded sets and compared.           *)

MaxRows1 == 3
MaxRows2 == 2

TextX      == <<"x">>
TextXSpace == <<"x", " ">>
TextY      == <<"y">>

RowPool ==
    { <<Cell("id", PyInt(1)), Cell("name", PyStr(TextX))>>,
      <<Cell("id", PyInt(1)), Cell("name", PyStr(TextY))>>,
      <<Cell("id", PyInt(2)), Cell("name", PyStr(TextX))>>,
      <<Cell("name", PyStr(TextX)), Cell("score", PyInf)>>,
      <<Cell("name", PyStr(TextXSpace)), Cell("score", PyInt(1))>> }

TableExcludes == {{}, {"id"}, {"score"}}

SeqsUpTo(S, n) == UNION {[1..k -> S] : k \in 0..n}

InitTable ==
    /\ rows1 \in SeqsUpTo(RowPool, MaxRows1)
    /\ rows2 \in SeqsUpTo(RowPool, MaxRows2)
    /\ exclude_columns \in TableExcludes
    /\ matching_result = None /\ table_comparison = None
    /\ row1 = <<>> /\ row2 = <<>> /\ hash1 = <<>> /\ hash2 = <<>> /\ field_differences = {}
    /\ pc = "input"
    /\ RunIdle
    /\ ClassIdle

CompareTableData ==
    /\ pc = "input"
    /\ pc' = "compared"
    /\ matching_result' = find_matching_rows(rows1, rows2, exclude_columns)
    /\ table_comparison' = compare_table_data(rows1, rows2, exclude_columns,
                                              matching_result')
    /\ UNCHANGED <<rows1, rows2, exclude_columns, rowVars, runVars, classVars>>

NextTable == CompareTableData

SpecTable == InitTable /\ [][NextTable]_vars

Range(s) == {s[i] : i \in 1..Len(s)}

(* C1: matching completeness,                                               *)
(* 2*len(matched_pairs) + len(only_in_db1) + len(only_in_db2)               *)
(*   == len(rowsA) + len(rowsB), duplicates and empty sides included.       *)
C1_MatchingCompleteness ==
    pc = "compared" =>
        2 * Len(matching_result.matched_pairs)
          + Len(matching_result.only_in_db1) + Len(matching_result.only_in_db2)
        = Len(rows1) + Len(rows2)

HasDuplicate(rows) == \E i, j \in 1..Len(rows) : i < j /\ rows[i] = rows[j]

C1_Witness ==
    /\ pc = "compared"
    /\ HasDuplicate(rows1)
    /\ matching_result.matched_pairs # <<>>
    /\ matching_result.only_in_db1 # <<>>
    /\ matching_result.only_in_db2 # <<>>

(* C4: matching a row sequence against an exact copy of itself yields no    *)
(* only-in rows and no row with field differences, so matching_rows is the  *)
(* row count.                                                               *)
C4_Idempotence ==
    (pc = "compared" /\ rows1 = rows2) =>
        /\ table_comparison.rows_only_in_db1 = <<>>
        /\ table_comparison.rows_only_in_db2 = <<>>
        /\ table_comparison.rows_with_differences = <<>>
        /\ table_comparison.matching_rows = Len(rows1)

(* The occurrences (indices) whose fingerprint is h, in row order, given    *)
(* the fingerprints fp of the rows.                                         *)
OccurrencesOf(fp, h) == SelectSeq([i \in 1..Len(fp) |-> i], LAMBDA i : fp[i] = h)

(* C5: a fingerprint with cA occurrences in rowsA and cB in rowsB gets      *)
(* exactly min(cA, cB) matched pairs, the i-th occurrence of A with the     *)
(* i-th of B; the other cA - min and cB - min occurrences are in            *)
(* only_in_db1 and only_in_db2, in their original order.                    *)
C5_MultiplicityAwareMatching ==
    pc = "compared" =>
        LET fpA == RowHashes(rows1, exclude_columns)
            fpB == RowHashes(rows2, exclude_columns)
        IN  \A h \in Range(fpA) \cup Range(fpB) :
                LET occA == OccurrencesOf(fpA, h)
                    occB == OccurrencesOf(fpB, h)
                    m    == Min(Len(occA), Len(occB))
                IN  /\ SelectSeq(matching_result.matched_pairs,
                                  LAMBDA p : p[1] \in Range(occA) \/ p[2] \in Range(occB))
                         = [i \in 1..m |-> <<occA[i], occB[i]>>]
                    /\ SelectSeq(matching_result.only_in_db1,
                                  LAMBDA i : i \in Range(occA))
                         = SubSeq(occA, m + 1, Len(occA))
                    /\ SelectSeq(matching_result.only_in_db2,
                                  LAMBDA j : j \in Range(occB))
                         = SubSeq(occB, m + 1, Len(occB))

C5_Witness ==
    /\ pc = "compared"
    /\ LET fpA == RowHashes(rows1, exclude_columns)
           fpB == RowHashes(rows2, exclude_columns)
       IN  /\ \E h \in Range(fpA) :
                 /\ Len(OccurrencesOf(fpA, h)) = 3
                 /\ Len(OccurrencesOf(fpB, h)) = 1
                 /\ Len(matching_result.matched_pairs) = 1
                 /\ Len(matching_result.only_in_db1) = 2
           /\ \E h \in Range(fpB) : OccurrencesOf(fpA, h) = <<>>

(* Two rows stand for the same logical record when both carry the primary   *)
(* key column id with the same value.                                       *)
SameRecord(a, b) == HasKey(a, "id") /\ HasKey(b, "id") /\ Get(a, "id") = Get(b, "id")

(* The non-excluded columns in which two rows differ by the Field Differ's  *)
(* equality rules.                                                          *)
DifferingFields(a, b, excl) ==
    {c \in (Keys(a) \cup Keys(b)) \ excl : ~values_equal(Get(a, c), Get(b, c))}

RowDifferencesOfPair(i, j) ==
    {k \in 1..Len(table_comparison.rows_with_differences) :
        table_comparison.rows_with_differences[k].pair = <<i, j>>}

ChangedRecord(i, j) ==
    /\ SameRecord(rows1[i], rows2[j])
    /\ \A i2 \in 1..Len(rows1) : SameRecord(rows1[i2], rows2[j]) => i2 = i
    /\ \A j2 \in 1..Len(rows2) : SameRecord(rows1[i], rows2[j2]) => j2 = j
    /\ Cardinality(DifferingFields(rows1[i], rows2[j], exclude_columns)) = 1

(* The record of rows2[j] is on side B only: no row of side A has its id.   *)
OnlyOnSideB(j) ==
    /\ HasKey(rows2[j], "id")
    /\ \A i \in 1..Len(rows1) : ~SameRecord(rows1[i], rows2[j])

(* C6: a record held by both sides whose row on side B differs in one       *)
(* non-excluded field is paired and reported as exactly one RowDifference   *)
(* naming that field, and is in neither only-in list; a row present only on *)
(* side B is in rows_only_in_db2.                                           *)
C6_ChangedRowPairedAndReported ==
    pc = "compared" =>
        /\ \A i \in 1..Len(rows1), j \in 1..Len(rows2) :
              ChangedRecord(i, j) =>
                /\ <<i, j>> \in Range(matching_result.matched_pairs)
                /\ Cardinality(RowDifferencesOfPair(i, j)) = 1
                /\ \A k \in RowDifferencesOfPair(i, j) :
                      {d.field_name :
                          d \in table_comparison.rows_with_differences[k].differences}
                        = DifferingFields(rows1[i], rows2[j], exclude_columns)
                /\ i \notin Range(table_comparison.rows_only_in_db1)
                /\ j \notin Range(table_comparison.rows_only_in_db2)
        /\ \A j \in 1..Len(rows2) :
              OnlyOnSideB(j) => j \in Range(table_comparison.rows_only_in_db2)

C6_Witness ==
    /\ pc = "compared"
    /\ \E i \in 1..Len(rows1), j \in 1..Len(rows2) :
          /\ ChangedRecord(i, j)
          /\ Cardinality(RowDifferencesOfPair(i, j)) = 1
    /\ \E j \in 1..Len(rows2) :
          OnlyOnSideB(j) /\ j \in Range(table_comparison.rows_only_in_db2)
    /\ Len(table_comparison.rows_with_differences) = 1

-----------------------------------------------------------------------------
(* DatabaseComparator.compare(): configuration, connections, the schema and *)
(* data stages, cleanup.  Threads are numbered: 0 is the thread that calls  *)
(* compare(), 1..max_workers are the pool's worker threads.  Tables are     *)
(* numbered 1..MaxTables; the number stands for the table's name.           *)

MaxTables == 2
MaxWorkers == 2

Tables == 1..MaxTables
MainThread == 0
NoConn == 0
NoError == [kind |-> "none", table |-> 0]

(* DatabaseConnector objects: handle 1 is on db1_path, handle 2 on db2_path *)
Handles == {1, 2}

NoConnections == [h \in Handles |-> [state |-> "absent", thread |-> MainThread]]

(* DatabaseConnector.__init__ / _connect on thread th: sqlite3.connect with *)
(* its default check_same_thread=True binds the connection to th.           *)
Connect(conns, h, th) == [conns EXCEPT ![h] = [state |-> "open", thread |-> th]]

(* DatabaseConnector.close                                                  *)
Close(conns, h) == [conns EXCEPT ![h].state = "closed"]

(* DatabaseConnector.execute_query on thread th raises when there is no     *)
(* connection, and when sqlite3 refuses the cursor because the connection   *)
(* was created in another thread (sqlite3.ProgrammingError, wrapped as      *)
(* SchemaExtractionError).                                                  *)
QueryRaises(conns, h, th) ==
    \/ h = NoConn
    \/ conns[h].state # "open"
    \/ conns[h].thread # th

(* The table's data as the comparison sees it: the number of rows only in   *)
(* db1, only in db2 and with differences that compare_table_data finds.     *)
DifferencesIn(t) == t - 1

(* DataComparator.compare_table_data(table_name, conn1, conn2) on thread    *)
(* th: every read goes through execute_query of conn1 and conn2; a table of *)
(* db.bad cannot be read (its query fails).                                 *)
CompareTableRaises(conns, t, c1, c2, th, bad) ==
    \/ QueryRaises(conns, c1, th)
    \/ QueryRaises(conns, c2, th)
    \/ t \in bad

TableComparisonOf(t) == [table_name |-> t, differences |-> DifferencesIn(t)]

(* table_results[table_name] = table_comparison                             *)
DictSet(results, r) == {x \in results : x.table_name # r.table_name} \cup {r}

NoTask == [state |-> "none", thread |-> MainThread, conn1 |-> NoConn, conn2 |-> NoConn]

(* list(tables1 & tables2): the elements of a set in some order            *)
RECURSIVE ListsOf(_)
ListsOf(S) ==
    IF S = {} THEN {<<>>}
    ELSE UNION {{<<x>> \o q : q \in ListsOf(S \ {x})} : x \in S}

InitRun ==
    /\ options \in [max_workers     : 0..MaxWorkers,
                    batch_size      : {0, 1000},
                    parallel_tables : BOOLEAN,
                    compare_schema  : BOOLEAN,
                    compare_data    : BOOLEAN]
    /\ db \in [openable  : [Handles -> BOOLEAN],
               schema_ok : BOOLEAN,
               bad       : SUBSET Tables]
    /\ table_names \in UNION {ListsOf(S) : S \in SUBSET Tables}
    /\ conn1 = NoConn /\ conn2 = NoConn
    /\ connections = NoConnections
    /\ task = [t \in Tables |-> NoTask]
    /\ table_results = {} /\ total_differences = 0
    /\ data_outcome = "none" /\ error = NoError /\ outcome = "none"
    /\ pc = "validate"
    /\ DataIdle
    /\ ClassIdle

(* raise inside compare(): the except clause wraps the exception and the    *)
(* finally clause runs next                                                 *)
Raise(e) ==
    /\ error' = e
    /\ outcome' = "raised"
    /\ pc' = "finally"

ConfigurationInvalid_batchOnly(o) == o.batch_size <= 0

(* DatabaseComparator._validate_configuration                               *)
ConfigurationInvalid(o) == o.batch_size <= 0 \/ o.max_workers <= 0

ValidateConfiguration ==
    /\ pc = "validate"
    /\ IF ConfigurationInvalid(options)
       THEN Raise([kind |-> "configuration", table |-> 0])
       ELSE pc' = "connect" /\ UNCHANGED <<error, outcome>>
    /\ UNCHANGED <<options, db, table_names, conn1, conn2, connections, task,
                   table_results, total_differences, data_outcome>>
    /\ UNCHANGED <<rowVars, matchVars, exclude_columns, classVars>>

(* DatabaseComparator._initialize_connections: conn1, then conn2; the first *)
(* constructor that fails raises and leaves the later attribute unset       *)
InitializeConnections ==
    /\ pc = "connect"
    /\ IF ~db.openable[1]
       THEN /\ Raise([kind |-> "connection", table |-> 0])
            /\ UNCHANGED <<conn1, conn2, connections>>
       ELSE IF ~db.openable[2]
       THEN /\ Raise([kind |-> "connection", table |-> 0])
            /\ conn1' = 1
            /\ connections' = Connect(connections, 1, MainThread)
            /\ UNCHANGED conn2
       ELSE /\ conn1' = 1 /\ conn2' = 2
            /\ connections' = Connect(Connect(connections, 1, MainThread), 2, MainThread)
            /\ pc' = "schema"
            /\ UNCHANGED <<error, outcome>>
    /\ UNCHANGED <<options, db, table_names, task, table_results,
                   total_differences, data_outcome>>
    /\ UNCHANGED <<rowVars, matchVars, exclude_columns, classVars>>

(* DatabaseComparator._compare_schemas raises when a connection is missing  *)
(* or get_schema / compare_schemas fails                                    *)
SchemaRaises ==
    \/ QueryRaises(connections, conn1, MainThread)
    \/ QueryRaises(connections, conn2, MainThread)
    \/ ~db.schema_ok

(* if self.options.compare_schema: schema_result = self._compare_schemas()  *)
CompareSchemas ==
    /\ pc = "schema"
    /\ IF options.compare_schema /\ SchemaRaises
       THEN Raise([kind |-> "schema", table |-> 0])
       ELSE pc' = "data" /\ UNCHANGED <<error, outcome>>
    /\ UNCHANGED <<options, db, table_names, conn1, conn2, connections, task,
                   table_results, total_differences, data_outcome>>
    /\ UNCHANGED <<rowVars, matchVars, exclude_columns, classVars>>

(* DataComparator.compare_all_tables on the calling thread: the tables in   *)
(* list order up to and including the first one whose comparison raises.    *)
RECURSIVE FirstRaising(_, _, _, _, _)
FirstRaising(names, conns, c1, c2, bad) ==
    IF names = <<>> THEN 0
    ELSE IF CompareTableRaises(conns, Head(names), c1, c2, MainThread, bad) THEN 1
    ELSE LET k == FirstRaising(Tail(names), conns, c1, c2, bad)
         IN  IF k = 0 THEN 0 ELSE k + 1

RECURSIVE SumDifferences(_)
SumDifferences(results) ==
    IF results = {} THEN 0
    ELSE LET r == CHOOSE x \in results : TRUE
         IN  r.differences + SumDifferences(results \ {r})

(* _compare_data chooses the parallel path                                  *)
UseParallel == options.parallel_tables /\ Len(table_names) > 1

SkipData ==
    /\ pc = "data"
    /\ ~options.compare_data
    /\ pc' = "summary"
    /\ UNCHANGED <<options, db, table_names, conn1, conn2, connections, task,
                   table_results, total_differences, data_outcome, error, outcome>>
    /\ UNCHANGED <<rowVars, matchVars, exclude_columns, classVars>>

(* DataComparator.compare_all_tables on thread th: the result, or the       *)
(* table whose comparison raised (raised_at is its position, 0 if none)     *)
compare_all_tables(names, conns, c1, c2, bad) ==
    LET k       == FirstRaising(names, conns, c1, c2, bad)
        done    == IF k = 0 THEN Len(names) ELSE k - 1
        results == {TableComparisonOf(names[i]) : i \in 1..done}
    IN  [raised_at         |-> k,
         compared          |-> {names[i] : i \in 1..done},
         table_results     |-> results,
         total_differences |-> SumDifferences(results)]

(* DatabaseComparator._compare_data_sequential                              *)
CompareDataSequential ==
    /\ pc = "data"
    /\ options.compare_data
    /\ ~UseParallel
    /\ LET r == compare_all_tables(table_names, connections, conn1, conn2, db.bad)
       IN  /\ task' = [t \in Tables |->
                         IF t \in r.compared
                         THEN [state |-> "ok", thread |-> MainThread,
                               conn1 |-> conn1, conn2 |-> conn2]
                         ELSE IF r.raised_at # 0 /\ table_names[r.raised_at] = t
                         THEN [state |-> "failed", thread |-> MainThread,
                               conn1 |-> conn1, conn2 |-> conn2]
                         ELSE task[t]]
           /\ table_results' = r.table_results
           /\ total_differences' = r.total_differences
           /\ IF r.raised_at = 0
              THEN /\ data_outcome' = "returned"
                   /\ pc' = "summary"
                   /\ UNCHANGED <<error, outcome>>
              ELSE /\ data_outcome' = "raised"
                   /\ Raise([kind |-> "table", table |-> table_names[r.raised_at]])
    /\ UNCHANGED <<options, db, table_names, conn1, conn2, connections>>
    /\ UNCHANGED <<rowVars, matchVars, exclude_columns, classVars>>

(* _compare_data_parallel: every table is submitted to the executor with    *)
(* self.conn1 and self.conn2 as arguments                                   *)
SubmitTasks ==
    /\ pc = "data"
    /\ options.compare_data
    /\ UseParallel
    /\ task' = [t \in Tables |->
                  IF \E i \in 1..Len(table_names) : table_names[i] = t
                  THEN [state |-> "pending", thread |-> MainThread,
                        conn1 |-> conn1, conn2 |-> conn2]
                  ELSE task[t]]
    /\ pc' = "collect"
    /\ UNCHANGED <<options, db, table_names, conn1, conn2, connections,
                   table_results, total_differences, data_outcome, error, outcome>>
    /\ UNCHANGED <<rowVars, matchVars, exclude_columns, classVars>>

Running == {t \in Tables : task[t].state = "running"}

(* the executor's work queue is first in, first out                         *)
NextPending(t) ==
    \E i \in 1..Len(table_names) :
        /\ table_names[i] = t
        /\ task[t].state = "pending"
        /\ \A j \in 1..(i - 1) : task[table_names[j]].state # "pending"

(* a free worker thread w takes the next queued task and enters             *)
(* compare_table_data                                                       *)
WorkerStart(w, t) ==
    /\ pc \in {"collect", "shutdown"}
    /\ NextPending(t)
    /\ \A u \in Running : task[u].thread # w
    /\ task' = [task EXCEPT ![t].state = "running", ![t].thread = w]
    /\ UNCHANGED <<pc, options, db, table_names, conn1, conn2, connections,
                   table_results, total_differences, data_outcome, error, outcome>>
    /\ UNCHANGED <<rowVars, matchVars, exclude_columns, classVars>>

(* compare_table_data returns or raises on the worker thread; the future    *)
(* is done                                                                  *)
TaskFinish(t) ==
    /\ task[t].state = "running"
    /\ task' = [task EXCEPT ![t].state =
                  IF CompareTableRaises(connections, t, task[t].conn1, task[t].conn2,
                                        task[t].thread, db.bad)
                  THEN "failed" ELSE "ok"]
    /\ UNCHANGED <<pc, options, db, table_names, conn1, conn2, connections,
                   table_results, total_differences, data_outcome, error, outcome>>
    /\ UNCHANGED <<rowVars, matchVars, exclude_columns, classVars>>

Collected == {r.table_name : r \in table_results}

FutureRaises_never(state) == FALSE

(* future.result() re-raises the exception of a failed task                 *)
FutureRaises(state) == state = "failed"

Submitted == {table_names[i] : i \in 1..Len(table_names)}

(* one iteration of "for future in as_completed(future_to_table)" on a done *)
(* future that has not been handed out yet; after the last future the with  *)
(* block ends and _compare_data_parallel returns the DataComparisonResult   *)
Collect(t) ==
    /\ pc = "collect"
    /\ task[t].state \in {"ok", "failed"}
    /\ t \notin Collected
    /\ IF FutureRaises(task[t].state)
       THEN /\ error' = [kind |-> "table", table |-> t]
            /\ pc' = "shutdown"
            /\ UNCHANGED <<table_results, total_differences, data_outcome>>
       ELSE /\ table_results' = DictSet(table_results, TableComparisonOf(t))
            /\ total_differences' = total_differences + DifferencesIn(t)
            /\ IF Submitted \subseteq Collected \cup {t}
               THEN data_outcome' = "returned" /\ pc' = "summary"
               ELSE UNCHANGED <<data_outcome, pc>>
            /\ UNCHANGED error
    /\ UNCHANGED <<options, db, table_names, conn1, conn2, connections, task, outcome>>
    /\ UNCHANGED <<rowVars, matchVars, exclude_columns, classVars>>

(* The exception leaves the with block without waiting for the tasks.      *)
ParallelRaise_noWait ==
    /\ pc = "shutdown"
    /\ data_outcome' = "raised"
    /\ outcome' = "raised"
    /\ pc' = "finally"
    /\ UNCHANGED <<options, db, table_names, conn1, conn2, connections, task,
                   table_results, total_differences, error>>
    /\ UNCHANGED <<rowVars, matchVars, exclude_columns, classVars>>

(* the exception leaves the with block: ThreadPoolExecutor.__exit__ calls   *)
(* shutdown(wait=True), which returns when every submitted task has run     *)
ParallelRaise ==
    /\ pc = "shutdown"
    /\ \A t \in Submitted : task[t].state \in {"ok", "failed"}
    /\ data_outcome' = "raised"
    /\ outcome' = "raised"
    /\ pc' = "finally"
    /\ UNCHANGED <<options, db, table_names, conn1, conn2, connections, task,
                   table_results, total_differences, error>>
    /\ UNCHANGED <<rowVars, matchVars, exclude_columns, classVars>>

(* _generate_summary, ComparisonResult(...), return result                  *)
ReturnResult ==
    /\ pc = "summary"
    /\ outcome' = "returned"
    /\ pc' = "finally"
    /\ UNCHANGED <<options, db, table_names, conn1, conn2, connections, task,
                   table_results, total_differences, data_outcome, error>>
    /\ UNCHANGED <<rowVars, matchVars, exclude_columns, classVars>>

cleanup_connections_onlyBoth(conns, c1, c2) ==
    IF c1 # NoConn /\ c2 # NoConn
    THEN [connections |-> Close(Close(conns, c1), c2), conn1 |-> NoConn, conn2 |-> NoConn]
    ELSE [connections |-> conns, conn1 |-> c1, conn2 |-> c2]

(* DatabaseComparator._cleanup_connections                                  *)
cleanup_connections(conns, c1, c2) ==
    LET after1 == IF c1 # NoConn THEN Close(conns, c1) ELSE conns
        after2 == IF c2 # NoConn THEN Close(after1, c2) ELSE after1
    IN  [connections |-> after2, conn1 |-> NoConn, conn2 |-> NoConn]

(* finally: self._cleanup_connections()                                     *)
Cleanup ==
    /\ pc = "finally"
    /\ LET c == cleanup_connections(connections, conn1, conn2)
       IN  /\ connections' = c.connections
           /\ conn1' = c.conn1
           /\ conn2' = c.conn2
    /\ pc' = "done"
    /\ UNCHANGED <<options, db, table_names, task, table_results,
                   total_differences, data_outcome, error, outcome>>
    /\ UNCHANGED <<rowVars, matchVars, exclude_columns, classVars>>

NextRun ==
    \/ ValidateConfiguration
    \/ InitializeConnections
    \/ CompareSchemas
    \/ SkipData
    \/ CompareDataSequential
    \/ SubmitTasks
    \/ \E w \in 1..options.max_workers, t \in Tables : WorkerStart(w, t)
    \/ \E t \in Tables : TaskFinish(t)
    \/ \E t \in Tables : Collect(t)
    \/ ParallelRaise
    \/ ReturnResult
    \/ Cleanup

SpecRun == InitRun /\ [][NextRun]_vars

(* C7: fail-fast.  When the comparison of a table has failed, the data      *)
(* stage (compare_all_tables or _compare_data_parallel) returns no result;  *)
(* it raises an error that names a table whose task failed.                 *)
C7_FailFast ==
    (data_outcome # "none" /\ \E t \in Tables : task[t].state = "failed") =>
        /\ data_outcome = "raised"
        /\ error.kind = "table"
        /\ error.table \in Tables
        /\ task[error.table].state = "failed"

C7_Witness ==
    /\ pc = "done"
    /\ ~UseParallel
    /\ data_outcome = "raised"
    /\ table_results # {}
    /\ \E t \in Tables : task[t].state = "failed" /\ error.table = t

(* C8: when compare() has finished, on every exit path, every connection    *)
(* that was opened is closed and conn1 and conn2 are None.                  *)
C8_ConnectionsReleased ==
    pc = "done" =>
        /\ conn1 = NoConn
        /\ conn2 = NoConn
        /\ \A h \in Handles : connections[h].state # "open"

C8_Witness ==
    /\ pc = "done"
    /\ outcome = "raised"
    /\ error.kind = "connection"
    /\ connections[1].state = "closed"
    /\ connections[2].state = "absent"

HandlesOf(t) == {task[t].conn1, task[t].conn2} \ {NoConn}

(* C10: no connection handle is in use by two table tasks at the same time. *)
C10_NoSharedConnectionHandle ==
    \A t, u \in Running : t # u => HandlesOf(t) \cap HandlesOf(u) = {}

(* C11: with max_workers <= 0 or batch_size <= 0 compare() fails with a     *)
(* configuration error; no connection is ever opened, no table is read and  *)
(* no table task is started.                                                *)
C11_ConfigurationErrorBeforeAnyWork ==
    (options.max_workers <= 0 \/ options.batch_size <= 0) =>
        /\ pc \in {"validate", "finally", "done"}
        /\ connections = NoConnections
        /\ conn1 = NoConn /\ conn2 = NoConn
        /\ \A t \in Tables : task[t].state = "none"
        /\ table_results = {} /\ data_outcome = "none"
        /\ pc # "validate" => (outcome = "raised" /\ error.kind = "configuration")

C11_Witness ==
    /\ pc = "done"
    /\ options.max_workers = 0
    /\ options.batch_size = 1000
    /\ options.compare_data
    /\ db.openable[1] /\ db.openable[2]
    /\ table_names # <<>>
    /\ error.kind = "configuration"

(* C25: in parallel mode, when one table task fails while other tasks have  *)
(* been submitted, the other tasks are not cancelled and run to completion, *)
(* none of their results is returned to the caller, and the error reaches   *)
(* the caller of _compare_data_parallel only after every submitted task has *)
(* terminated.                                                              *)
C25_ParallelFailureWaitsForAllTasks ==
    UseParallel =>
        /\ pc = "shutdown" => data_outcome = "none"
        /\ data_outcome = "raised" =>
              /\ \A t \in Submitted : task[t].state \in {"ok", "failed"}
              /\ error.kind = "table"
              /\ task[error.table].state = "failed"
              /\ outcome # "returned"
        /\ (\E t \in Submitted : task[t].state = "failed") => data_outcome # "returned"

C25_Witness ==
    /\ UseParallel
    /\ pc = "shutdown"
    /\ error.kind = "table"
    /\ \E t \in Submitted : task[t].state \in {"pending", "running"}

-----------------------------------------------------------------------------
(* Column classification: MetadataDetector, UUIDHandler.detect_uuid_columns *)
(* and DataComparator.get_excluded_columns_info.                            *)
(* A Column is a record [name, type, is_primary_key]; a TableStructure is   *)
(* the sequence of its columns.  Regular expressions are the pattern        *)
(* strings of the source; what re.match answers for them on the column      *)
(* names of the model is tabulated.                                         *)

Column(name, type, pk) == [name |-> name, type |-> type, is_primary_key |-> pk]

(* str.lower() on the column names of the model                             *)
Lower(name) == IF name = "Note" THEN "note" ELSE name

(* str.upper() on the declared column types of the model                    *)
Upper(type) == IF type = "text" THEN "TEXT" ELSE type

(* 'INT' in column.type.upper()                                             *)
ContainsINT(type) == Upper(type) \in {"INTEGER", "INT", "BIGINT"}

default_timestamp_patterns ==
    <<".*timestamp.*", ".*_at$", ".*_time$", ".*_date$", "^created$", "^modified$",
      "^updated$", "^deleted$", ".*created_time.*", ".*updated_time.*",
      ".*modified_time.*", ".*deleted_time.*">>

default_metadata_patterns ==
    <<".*created_by.*", ".*modified_by.*", ".*updated_by.*", ".*session_id.*",
      ".*transaction_id.*", ".*row_version.*", ".*record_version.*",
      ".*version_number.*", ".*etag.*", ".*checksum.*", ".*hash.*", ".*audit_log.*",
      ".*trace_id.*", ".*source_system.*", ".*external_id.*">>

default_sequence_patterns ==
    <<"^id$", ".*_seq$", ".*_sequence$", ".*_number$", ".*rowid.*", ".*autoincrement.*">>

audit_patterns == <<".*user$", ".*_by$", ".*_user$", ".*source.*", ".*system.*">>

uuid_name_patterns == <<".*uuid.*", ".*guid.*">>

timestamp_data_types ==
    {"DATETIME", "TIMESTAMP", "DATE", "TIME", "datetime", "timestamp", "date", "time"}

sequence_data_types == {"SERIAL", "BIGSERIAL", "IDENTITY", "serial", "bigserial", "identity"}

(* Custom patterns a user supplies in the model: one that matches the       *)
(* column Note and one that is not a regular expression.                    *)
PatternNote == "^note$"
PatternInvalid == "["

(* re.compile(pattern) raises re.error                                      *)
ReInvalid(pattern) == pattern = PatternInvalid

(* The pairs (pattern, lower-case column name) for which re.match succeeds. *)
MatchTable ==
    {<<".*_at$", "created_at">>, <<".*updated_by.*", "updated_by">>,
     <<"^id$", "id">>, <<".*_by$", "updated_by">>, <<".*uuid.*", "ext_uuid">>,
     <<"^note$", "note">>}

ReMatch(pattern, text) == <<pattern, text>> \in MatchTable

(* for pattern in patterns: if re.match(pattern, name): ...; break          *)
(* "match", "nomatch", or "error" when re.match raises before any match     *)
RECURSIVE MatchAny(_, _)
MatchAny(patterns, text) ==
    IF patterns = <<>> THEN "nomatch"
    ELSE IF ReInvalid(Head(patterns)) THEN "error"
    ELSE IF ReMatch(Head(patterns), text) THEN "match"
    ELSE MatchAny(Tail(patterns), text)

(* the same loop inside try / except re.error: continue                     *)
RECURSIVE MatchAnySkippingInvalid(_, _)
MatchAnySkippingInvalid(patterns, text) ==
    IF patterns = <<>> THEN FALSE
    ELSE IF ReInvalid(Head(patterns)) THEN MatchAnySkippingInvalid(Tail(patterns), text)
    ELSE IF ReMatch(Head(patterns), text) THEN TRUE
    ELSE MatchAnySkippingInvalid(Tail(patterns), text)

ColumnNames(ts) == {ts[i].name : i \in 1..Len(ts)}

(* the result of a detect_* method: the columns, or that it raised          *)
Detected(cols) == [raised |-> FALSE, columns |-> cols]
DetectionRaised == [raised |-> TRUE, columns |-> {}]

(* the custom list replaces the default list when it is not empty           *)
PatternsToUse(custom, default) == IF custom # <<>> THEN custom ELSE default

(* MetadataDetector.detect_timestamp_columns                                *)
detect_timestamp_columns(ts, o) ==
    IF ~o.auto_detect_timestamps THEN Detected(Range(o.explicit_timestamp_columns))
    ELSE
    LET patterns == PatternsToUse(o.timestamp_patterns, default_timestamp_patterns)
        ByType(c) == Upper(c.type) \in timestamp_data_types
        Result(c) == IF ByType(c) THEN "match" ELSE MatchAny(patterns, Lower(c.name))
    IN  IF \E i \in 1..Len(ts) : Result(ts[i]) = "error" THEN DetectionRaised
        ELSE Detected({ts[i].name : i \in {j \in 1..Len(ts) : Result(ts[j]) = "match"}}
                      \cup Range(o.explicit_timestamp_columns))

(* MetadataDetector.detect_metadata_columns                                 *)
detect_metadata_columns(ts, o) ==
    IF ~o.auto_detect_metadata THEN Detected(Range(o.explicit_metadata_columns))
    ELSE
    LET patterns == PatternsToUse(o.metadata_patterns, default_metadata_patterns)
        Result(c) == MatchAny(patterns, Lower(c.name))
        Audit(c)  == MatchAny(audit_patterns, Lower(c.name)) = "match"
    IN  IF \E i \in 1..Len(ts) : Result(ts[i]) = "error" THEN DetectionRaised
        ELSE Detected({ts[i].name : i \in {j \in 1..Len(ts) :
                                             Result(ts[j]) = "match" \/ Audit(ts[j])}}
                      \cup Range(o.explicit_metadata_columns))

(* sorted(int_values)                                                       *)
RECURSIVE SortedInts(_)
SortedInts(xs) ==
    IF xs = <<>> THEN <<>>
    ELSE LET m    == CHOOSE i \in 1..Len(xs) : \A j \in 1..Len(xs) : xs[i] <= xs[j]
             rest == [j \in 1..(Len(xs) - 1) |-> IF j < m THEN xs[j] ELSE xs[j + 1]]
         IN  <<xs[m]>> \o SortedInts(rest)

(* int(val) succeeds: integers convert; no text value of the model is a     *)
(* numeral and int(float('inf')) raises                                     *)
ConvertibleToInt(v) == v.t = "int"

(* MetadataDetector._appears_sequential: more than 70% of the differences   *)
(* between consecutive sorted values are 1                                  *)
appears_sequential(sample_data, column_name) ==
    LET present == SelectSeq(sample_data, LAMBDA row : Get(row, column_name).t # "null")
        values  == [i \in 1..Len(present) |-> Get(present[i], column_name)]
    IN  IF Len(values) < 2 THEN FALSE
        ELSE IF \E i \in 1..Len(values) : ~ConvertibleToInt(values[i]) THEN FALSE
        ELSE LET sorted_values == SortedInts([i \in 1..Len(values) |-> values[i].n])
                 differences == [i \in 1..(Len(sorted_values) - 1) |->
                                    sorted_values[i + 1] - sorted_values[i]]
                 sequential_count == Cardinality({i \in 1..Len(differences) :
                                                     differences[i] = 1})
             IN  10 * sequential_count > 7 * Len(differences)

(* MetadataDetector.detect_sequence_columns                                 *)
detect_sequence_columns(ts, sample_data, o) ==
    IF ~o.auto_detect_sequences THEN Detected(Range(o.explicit_sequence_columns))
    ELSE
    LET patterns == PatternsToUse(o.sequence_patterns, default_sequence_patterns)
        ByType(c) == \/ Upper(c.type) \in sequence_data_types
                     \/ (c.is_primary_key /\ ContainsINT(c.type))
        Result(c) == IF ByType(c) THEN "match" ELSE MatchAny(patterns, Lower(c.name))
        by_rule   == {ts[i].name : i \in {j \in 1..Len(ts) : Result(ts[j]) = "match"}}
        by_sample == IF Len(sample_data) > 1
                     THEN {ts[i].name : i \in {j \in 1..Len(ts) :
                              /\ ts[j].name \notin by_rule
                              /\ ContainsINT(ts[j].type)
                              /\ appears_sequential(sample_data, ts[j].name)}}
                     ELSE {}
    IN  IF \E i \in 1..Len(ts) : Result(ts[i]) = "error" THEN DetectionRaised
        ELSE Detected(by_rule \cup by_sample \cup Range(o.explicit_sequence_columns))

(* MetadataDetector._get_excluded_columns: the explicit columns and every   *)
(* column that a valid pattern of excluded_column_patterns matches          *)
get_excluded_columns(ts, o) ==
    Range(o.excluded_columns) \cup
    {ts[i].name : i \in {j \in 1..Len(ts) :
        MatchAnySkippingInvalid(o.excluded_column_patterns, Lower(ts[j].name))}}

(* list(set(...)): the elements of a set as a list without repetition.  The *)
(* order Python gives is arbitrary and nothing reads it; the model lists    *)
(* the names in string order.                                               *)
RECURSIVE SetToList(_)
SetToList(S) ==
    IF S = {} THEN <<>>
    ELSE LET m == CHOOSE x \in S : \A y \in S : ColRank(x) <= ColRank(y)
         IN  <<m>> \o SetToList(S \ {m})

InfoRaised == [status |-> "raised"]

(* MetadataDetector.get_all_excluded_columns                                *)
get_all_excluded_columns(ts, uuid_columns, sample_data, o) ==
    LET timestamp_columns == detect_timestamp_columns(ts, o)
        metadata_columns  == detect_metadata_columns(ts, o)
        sequence_columns  == detect_sequence_columns(ts, sample_data, o)
        excluded_columns  == get_excluded_columns(ts, o)
    IN  IF timestamp_columns.raised \/ metadata_columns.raised \/ sequence_columns.raised
        THEN InfoRaised
        ELSE [status            |-> "ok",
              uuid_columns      |-> uuid_columns,
              timestamp_columns |-> timestamp_columns.columns,
              metadata_columns  |-> metadata_columns.columns,
              sequence_columns  |-> sequence_columns.columns,
              excluded_columns  |-> excluded_columns,
              all_excluded      |-> SetToList(Range(uuid_columns)
                                              \cup timestamp_columns.columns
                                              \cup metadata_columns.columns
                                              \cup sequence_columns.columns
                                              \cup excluded_columns)]

-----------------------------------------------------------------------------
(* UUIDHandler                                                              *)

Digit == <<"0", "1", "2", "3", "4", "5", "6", "7", "8", "9">>

(* str(n) for a non-negative integer                                        *)
RECURSIVE DecimalDigits(_)
DecimalDigits(n) ==
    IF n < 10 THEN <<Digit[n + 1]>> ELSE DecimalDigits(n \div 10) \o <<Digit[(n % 10) + 1]>>

(* str(value)                                                               *)
StrOf(v) == IF v.t = "int" THEN DecimalDigits(v.n) ELSE v.s

HexDigits == {"0", "1", "2", "3", "4", "5", "6", "7", "8", "9",
              "a", "b", "c", "d", "e", "f", "A", "B", "C", "D", "E", "F"}

(* uuid.UUID(str_value) does not raise: without its hyphens the text is 32  *)
(* hexadecimal digits.  The four default regular expressions accept only    *)
(* such texts, so they add nothing to this test.                            *)
ParsesAsUUID(cs) ==
    LET hex == SelectSeq(cs, LAMBDA ch : ch # "-")
    IN  Len(hex) = 32 /\ \A i \in 1..32 : hex[i] \in HexDigits

(* A custom UUID pattern of the model and what re.match answers for it      *)
PatternReport == "^report-[0-9]+$"

ValueMatches(pattern, cs) ==
    /\ pattern = PatternReport
    /\ Len(cs) > 7
    /\ SubSeq(cs, 1, 7) = <<"r", "e", "p", "o", "r", "t", "-">>
    /\ \A i \in 8..Len(cs) : \E d \in 1..10 : cs[i] = Digit[d]

(* UUIDHandler.is_valid_uuid                                                *)
is_valid_uuid(v, custom_patterns) ==
    IF v.t = "null" THEN FALSE
    ELSE \/ ParsesAsUUID(StrOf(v))
         \/ \E i \in 1..Len(custom_patterns) : ValueMatches(custom_patterns[i], StrOf(v))

(* UUIDHandler.is_uuid_column                                               *)
is_uuid_column(column_name, column_type, explicit_uuid_columns) ==
    \/ Lower(column_name) \in {Lower(col) : col \in explicit_uuid_columns}
    \/ MatchAny(uuid_name_patterns, Lower(column_name)) = "match"
    \/ Upper(column_type) \in {"UUID", "GUID"}

(* UUIDHandler.detect_uuid_columns, for the handler that                    *)
(* set_comparison_options filled from explicit_uuid_columns / uuid_patterns *)
detect_uuid_columns(ts, sample_data, o) ==
    LET explicit == Range(o.explicit_uuid_columns)
        by_name  == {ts[i].name : i \in {j \in 1..Len(ts) :
                        is_uuid_column(ts[j].name, ts[j].type, explicit)}}
        SampleValues(name) ==
            SelectSeq([i \in 1..Len(sample_data) |-> Get(sample_data[i], name)],
                      LAMBDA v : v.t # "null")
        UuidCount(name) ==
            Len(SelectSeq(SampleValues(name),
                          LAMBDA v : is_valid_uuid(v, o.uuid_patterns)))
        by_value == {ts[i].name : i \in {j \in 1..Len(ts) :
                        /\ ts[j].name \notin by_name
                        /\ SampleValues(ts[j].name) # <<>>
                        /\ 10 * UuidCount(ts[j].name) >= 8 * Len(SampleValues(ts[j].name))}}
    IN  SetToList(by_name \cup by_value)

(* DataComparator.get_excluded_columns_info                                 *)
get_excluded_columns_info(ts, sample_data, o) ==
    LET uuid_columns   == detect_uuid_columns(ts, sample_data, o)
        info         == get_all_excluded_columns(ts, <<>>, sample_data, o)
    IN  IF info.status = "raised" THEN InfoRaised
        ELSE IF o.uuid_comparison_mode = "exclude"
        THEN [info EXCEPT !.uuid_columns = uuid_columns,
                          !.all_excluded = @ \o uuid_columns]
        ELSE IF o.uuid_comparison_mode = "include_with_tracking"
        THEN [info EXCEPT !.uuid_columns = uuid_columns]
             @@ [uuid_included_for_tracking |-> uuid_columns]
        ELSE [info EXCEPT !.uuid_columns = uuid_columns]
             @@ [uuid_included_normal |-> uuid_columns]


(* UUIDHandler.collect_uuid_statistics: the number of non-null values and   *)
(* of distinct values in the UUID columns of a dataset                      *)
collect_uuid_statistics(table_data, uuid_columns) ==
    LET values == {<<i, c>> \in (1..Len(table_data)) \X Range(uuid_columns) :
                      Get(table_data[i], c).t # "null"}
    IN  IF uuid_columns = <<>> \/ table_data = <<>>
        THEN [total_uuid_values |-> 0, unique_uuid_values |-> 0]
        ELSE [total_uuid_values  |-> Cardinality(values),
              unique_uuid_values |->
                  Cardinality({StrOf(Get(table_data[x[1]], x[2])) : x \in values})]

(* UUIDHandler: normalization of unique identifiers.  The regular           *)
(* expressions of the normalization rules of the model, and what re.sub     *)
(* does with them.                                                          *)
PatternPrefixed   == "^(report|record)-(\\d+)$"
PatternReportHead == "^report"

TextReport == <<"r", "e", "p", "o", "r", "t">>
TextRecord == <<"r", "e", "c", "o", "r", "d">>

(* A replacement template is a sequence of characters and of group          *)
(* references \1, \2.                                                       *)
GroupRef(k) == IF k = 1 THEN "\\1" ELSE "\\2"

IsDigits(cs) == cs # <<>> /\ \A i \in 1..Len(cs) : \E d \in 1..10 : cs[i] = Digit[d]

StartsWith(cs, head) == Len(cs) >= Len(head) /\ SubSeq(cs, 1, Len(head)) = head

(* number of capturing groups of a pattern                                  *)
GroupCount(pattern) == IF pattern = PatternPrefixed THEN 2 ELSE 0

(* Every group reference is taken for a reference to the first group.       *)
ExpandTemplate_firstGroupOnly(replacement, groups) ==
    Flatten([i \in 1..Len(replacement) |->
                IF replacement[i] \in {GroupRef(1), GroupRef(2)} THEN groups[1]
                ELSE <<replacement[i]>>])

(* the template with each group reference replaced by the captured text     *)
ExpandTemplate(replacement, groups) ==
    Flatten([i \in 1..Len(replacement) |->
                IF replacement[i] = GroupRef(1) THEN groups[1]
                ELSE IF replacement[i] = GroupRef(2) THEN groups[2]
                ELSE <<replacement[i]>>])

(* re.sub(pattern, replacement, cs): re.error for a pattern that does not   *)
(* compile and for a template that refers to a group the pattern does not   *)
(* have; otherwise the text with the match replaced.                        *)
ReSub(pattern, replacement, cs) ==
    IF \/ ReInvalid(pattern)
       \/ \E i \in 1..Len(replacement), k \in 1..2 :
             replacement[i] = GroupRef(k) /\ k > GroupCount(pattern)
    THEN [raised |-> TRUE, s |-> <<>>]
    ELSE IF pattern = PatternPrefixed
    THEN IF /\ StartsWith(cs, TextReport) \/ StartsWith(cs, TextRecord)
            /\ Len(cs) > 7
            /\ cs[7] = "-"
            /\ IsDigits(SubSeq(cs, 8, Len(cs)))
         THEN [raised |-> FALSE,
               s |-> ExpandTemplate(replacement,
                                    <<SubSeq(cs, 1, 6), SubSeq(cs, 8, Len(cs))>>)]
         ELSE [raised |-> FALSE, s |-> cs]
    ELSE IF pattern = PatternReportHead
    THEN IF StartsWith(cs, TextReport)
         THEN [raised |-> FALSE,
               s |-> ExpandTemplate(replacement, <<>>)
                         \o SubSeq(cs, Len(TextReport) + 1, Len(cs))]
         ELSE [raised |-> FALSE, s |-> cs]
    ELSE [raised |-> FALSE, s |-> cs]

(* one pass of the loop of _normalize_unique_id: a rule without 'pattern'   *)
(* or 'replacement' is passed over, re.error is caught                      *)
ApplyRule(rule, cs) ==
    IF "pattern" \in DOMAIN rule /\ "replacement" \in DOMAIN rule
    THEN LET r == ReSub(rule.pattern, rule.replacement, cs)
         IN  IF r.raised THEN cs ELSE r.s
    ELSE cs

(* The loop leaves at the first rule that is malformed or raises.           *)
RECURSIVE normalize_unique_id_stopAtInvalid(_, _)
normalize_unique_id_stopAtInvalid(value, rules) ==
    IF rules = <<>> THEN value
    ELSE IF /\ "pattern" \in DOMAIN Head(rules) /\ "replacement" \in DOMAIN Head(rules)
            /\ ~ReSub(Head(rules).pattern, Head(rules).replacement, value).raised
    THEN normalize_unique_id_stopAtInvalid(ApplyRule(Head(rules), value), Tail(rules))
    ELSE value

(* UUIDHandler._normalize_unique_id, rules being                            *)
(* comparison_options.unique_id_normalize_patterns                          *)
RECURSIVE normalize_unique_id(_, _)
normalize_unique_id(value, rules) ==
    IF rules = <<>> THEN value
    ELSE normalize_unique_id(ApplyRule(Head(rules), value), Tail(rules))

(* stats['normalized_values'] of collect_uuid_statistics: per UUID column   *)
(* with at least one non-null value, the normalized texts of its values     *)
normalized_values(table_data, uuid_columns, o) ==
    LET ColumnValues(c) ==
            SelectSeq([i \in 1..Len(table_data) |-> Get(table_data[i], c)],
                      LAMBDA v : v.t # "null")
        columns == IF uuid_columns = <<>> \/ table_data = <<>> THEN {}
                   ELSE {c \in Range(uuid_columns) : ColumnValues(c) # <<>>}
    IN  [c \in columns |->
            [i \in 1..Len(ColumnValues(c)) |->
                normalize_unique_id(StrOf(ColumnValues(c)[i]),
                                    o.unique_id_normalize_patterns)]]

RECURSIVE SumSeq(_)
SumSeq(xs) == IF xs = <<>> THEN 0 ELSE Head(xs) + SumSeq(Tail(xs))

Max(a, b) == IF a >= b THEN a ELSE b

RECURSIVE GCD(_, _)
GCD(a, b) == IF b = 0 THEN a ELSE GCD(b, a % b)

(* normalized_matches / total_comparisons * 100, kept as an exact fraction  *)
(* in lowest terms; the literal 0 of the else branch is 0/1                 *)
Percentage(matches, total) ==
    IF total > 0
    THEN [num |-> (100 * matches) \div GCD(100 * matches, total),
          den |-> total \div GCD(100 * matches, total)]
    ELSE [num |-> 0, den |-> 1]

(* The early return is missing: the empty input takes the general path.     *)
compare_normalized_unique_ids_noEarlyReturn(data1, data2, uuid_columns, o) ==
    LET nv1 == normalized_values(data1, uuid_columns, o)
        nv2 == normalized_values(data2, uuid_columns, o)
        both(c) == c \in DOMAIN nv1 /\ c \in DOMAIN nv2
        matches == SumSeq([i \in 1..Len(uuid_columns) |->
                      IF both(uuid_columns[i])
                      THEN Cardinality(Range(nv1[uuid_columns[i]])
                                       \cap Range(nv2[uuid_columns[i]]))
                      ELSE 0])
        total == SumSeq([i \in 1..Len(uuid_columns) |->
                      IF both(uuid_columns[i])
                      THEN Max(Cardinality(Range(nv1[uuid_columns[i]])),
                               Cardinality(Range(nv2[uuid_columns[i]])))
                      ELSE 0])
    IN  [normalized_matches |-> matches,
         total_comparisons  |-> total,
         match_percentage   |-> Percentage(matches, total)]

(* UUIDHandler.compare_normalized_unique_ids                                *)
compare_normalized_unique_ids(data1, data2, uuid_columns, o) ==
    IF uuid_columns = <<>> \/ data1 = <<>> \/ data2 = <<>>
    THEN [normalized_matches |-> 0, total_comparisons |-> 0]
    ELSE LET nv1 == normalized_values(data1, uuid_columns, o)
             nv2 == normalized_values(data2, uuid_columns, o)
             both(c) == c \in DOMAIN nv1 /\ c \in DOMAIN nv2
             matches == SumSeq([i \in 1..Len(uuid_columns) |->
                           IF both(uuid_columns[i])
                           THEN Cardinality(Range(nv1[uuid_columns[i]])
                                            \cap Range(nv2[uuid_columns[i]]))
                           ELSE 0])
             total == SumSeq([i \in 1..Len(uuid_columns) |->
                           IF both(uuid_columns[i])
                           THEN Max(Cardinality(Range(nv1[uuid_columns[i]])),
                                    Cardinality(Range(nv2[uuid_columns[i]])))
                           ELSE 0])
         IN  [normalized_matches |-> matches,
              total_comparisons  |-> total,
              match_percentage   |-> Percentage(matches, total)]

(* DataComparator.compare_table_data, "Collect UUID statistics if in        *)
(* tracking mode"                                                           *)
UuidStatisticsOf(data1, data2, uuid_columns, o) ==
    IF o.uuid_comparison_mode = "include_with_tracking" /\ uuid_columns # <<>>
    THEN LET stats1 == collect_uuid_statistics(data1, uuid_columns)
             stats2 == collect_uuid_statistics(data2, uuid_columns)
         IN  [uuid_columns           |-> uuid_columns,
              total_uuid_values_db1  |-> stats1.total_uuid_values,
              total_uuid_values_db2  |-> stats2.total_uuid_values,
              unique_uuid_values_db1 |-> stats1.unique_uuid_values,
              unique_uuid_values_db2 |-> stats2.unique_uuid_values,
              uuid_value_differences |->
                  IF data1 = <<>> \/ data2 = <<>> THEN 0
                  ELSE Cardinality({c \in Range(uuid_columns) :
                          /\ HasKey(data1[1], c) /\ HasKey(data2[1], c)
                          /\ Get(data1[1], c) # Get(data2[1], c)}),
              normalized_match_count |->
                  compare_normalized_unique_ids(data1, data2, uuid_columns,
                                                o).normalized_matches]
    ELSE None

-----------------------------------------------------------------------------
(* Table classification specification: a table, its rows on both sides and  *)
(* the ComparisonOptions are drawn from bounded sets; compare_table_data    *)
(* classifies the columns and matches the rows; then one custom pattern is  *)
(* added to a pattern list of the options and the table is compared again.  *)

UuidText == <<"5", "5", "0", "e", "8", "4", "0", "0", "-", "e", "2", "9", "b", "-",
              "4", "1", "d", "4", "-", "a", "7", "1", "6", "-",
              "4", "4", "6", "6", "5", "5", "4", "4", "0", "0", "0", "0">>
ReportText(d) == <<"r", "e", "p", "o", "r", "t", "-", d>>

TableA == <<Column("id", "INTEGER", TRUE), Column("created_at", "text", FALSE),
            Column("Note", "TEXT", FALSE), Column("ext_uuid", "TEXT", FALSE),
            Column("updated_by", "TEXT", FALSE), Column("token", "TEXT", FALSE),
            Column("code", "TEXT", FALSE)>>

TableB == <<Column("Note", "TEXT", FALSE), Column("ext_uuid", "TEXT", FALSE),
            Column("token", "TEXT", FALSE)>>

RowA(id, note, uuid, token, code) ==
    <<Cell("id", PyInt(id)), Cell("created_at", PyStr(<<"d">>)), Cell("Note", PyStr(note)),
      Cell("ext_uuid", PyStr(uuid)), Cell("updated_by", PyStr(<<"u">>)),
      Cell("token", PyStr(token)), Cell("code", PyStr(code))>>

RowB(note, uuid, token) ==
    <<Cell("Note", PyStr(note)), Cell("ext_uuid", PyStr(uuid)), Cell("token", PyStr(token))>>

(* table_structure with data1 and data2                                     *)
DataSets ==
    {[table |-> TableA,
      data1 |-> <<RowA(1, TextX, <<"u", "1">>, UuidText, ReportText("1"))>>,
      data2 |-> <<RowA(1, TextY, <<"u", "2">>, UuidText, ReportText("1"))>>],
     [table |-> TableA,
      data1 |-> <<RowA(1, TextX, <<"u", "1">>, UuidText, ReportText("1")),
                  RowA(2, TextX, <<"u", "3">>, TextX, ReportText("2"))>>,
      data2 |-> <<RowA(2, TextX, <<"u", "2">>, UuidText, ReportText("1"))>>],
     [table |-> TableB,
      data1 |-> <<RowB(TextX, <<"u", "1">>, UuidText)>>,
      data2 |-> <<RowB(TextX, <<"u", "2">>, UuidText)>>],
     [table |-> TableB,
      data1 |-> <<RowB(TextX, <<"u", "1">>, UuidText), RowB(TextY, <<"u", "1">>, TextX)>>,
      data2 |-> <<RowB(TextX, <<"u", "1">>, UuidText)>>],
     [table |-> TableB,
      data1 |-> <<>>,
      data2 |-> <<RowB(TextX, <<"u", "2">>, UuidText)>>]}

PatternLists == {"timestamp_patterns", "metadata_patterns", "sequence_patterns",
                 "excluded_column_patterns"}
CustomPatterns == {PatternNote, PatternInvalid}
ExplicitChoices == {<<>>, <<"Note">>}

InitClassify ==
    /\ \E d \in DataSets :
          table_structure = d.table /\ rows1 = d.data1 /\ rows2 = d.data2
    /\ \E given \in SUBSET PatternLists, explicit \in ExplicitChoices :
          /\ Cardinality(given) <= 1
          /\ \E base \in
                [auto_detect_uuids      : BOOLEAN,
                 explicit_uuid_columns  : {<<>>, <<"id">>},
                 uuid_patterns          : {<<>>, <<PatternReport>>},
                 uuid_comparison_mode   : {"exclude", "include_with_tracking",
                                           "include_normal"},
                 auto_detect_timestamps : BOOLEAN,
                 auto_detect_metadata   : BOOLEAN,
                 auto_detect_sequences  : BOOLEAN,
                 excluded_columns       : {<<>>, <<"ext_uuid">>},
                 unique_id_normalize_patterns : {<<>>}] :
                options = base
                    @@ [l \in {"explicit_timestamp_columns", "explicit_metadata_columns",
                               "explicit_sequence_columns"} |-> explicit]
                    @@ [l \in PatternLists |->
                          IF l \in given THEN <<PatternInvalid, PatternNote>> ELSE <<>>]
    /\ exclusion_info = None /\ previous_info = None /\ uuid_statistics = None
    /\ TrackIdle
    /\ exclude_columns = {}
    /\ matching_result = None /\ table_comparison = None
    /\ row1 = <<>> /\ row2 = <<>> /\ hash1 = <<>> /\ hash2 = <<>> /\ field_differences = {}
    /\ pc = "input"
    /\ db = None /\ table_names = <<>>
    /\ conn1 = 0 /\ conn2 = 0 /\ connections = None /\ task = None
    /\ table_results = None /\ total_differences = 0
    /\ data_outcome = "none" /\ error = None /\ outcome = "none"

(* DataComparator.compare_table_data under the options o: classify the      *)
(* columns from the structure and the sample of db1, then match the rows;   *)
(* an exception of the classification leaves compare_table_data             *)
CompareTableUnder(o) ==
    \E info \in {get_excluded_columns_info(table_structure, rows1, o)} :
        /\ exclusion_info' = info
        /\ IF info.status = "raised"
           THEN /\ error' = [kind |-> "re.error", table |-> 0]
                /\ exclude_columns' = {}
                /\ matching_result' = None
                /\ table_comparison' = None
                /\ uuid_statistics' = None
           ELSE /\ error' = None
                /\ exclude_columns' = Range(info.all_excluded)
                /\ matching_result' = find_matching_rows(rows1, rows2, exclude_columns')
                /\ table_comparison' = compare_table_data(rows1, rows2, exclude_columns',
                                                          matching_result')
                /\ uuid_statistics' = UuidStatisticsOf(rows1, rows2, info.uuid_columns, o)

CompareTable ==
    /\ pc = "input"
    /\ pc' = "compared"
    /\ CompareTableUnder(options)
    /\ UNCHANGED <<options, previous_info, table_structure, rows1, rows2>>
    /\ UNCHANGED <<rowVars, db, table_names, conn1, conn2, connections, task,
                   table_results, total_differences, data_outcome, outcome, trackVars>>

(* The user adds one custom pattern to one pattern list of the options and  *)
(* the same table is compared again.                                        *)
AddPatternAndCompare(list, pattern) ==
    /\ pc = "compared"
    /\ pc' = "recompared"
    /\ options' = [options EXCEPT ![list] = Append(@, pattern)]
    /\ previous_info' = exclusion_info
    /\ CompareTableUnder(options')
    /\ UNCHANGED <<table_structure, rows1, rows2>>
    /\ UNCHANGED <<rowVars, db, table_names, conn1, conn2, connections, task,
                   table_results, total_differences, data_outcome, outcome, trackVars>>

NextClassify ==
    \/ CompareTable
    \/ \E list \in PatternLists, pattern \in CustomPatterns :
          AddPatternAndCompare(list, pattern)

SpecClassify == InitClassify /\ [][NextClassify]_vars

Classified == pc \in {"compared", "recompared"}

(* the columns of the table that a valid pattern of the list matches        *)
CustomMatches(patterns) ==
    {c \in ColumnNames(table_structure) :
        \E i \in 1..Len(patterns) :
            ~ReInvalid(patterns[i]) /\ ReMatch(patterns[i], Lower(c))}

(* C12: classification monotonicity.  For a fixed table and otherwise       *)
(* unchanged options, adding one custom pattern to a pattern list gives an  *)
(* all_excluded that contains every column excluded before.                 *)
C12_ClassificationMonotone ==
    (pc = "recompared" /\ previous_info.status = "ok" /\ exclusion_info.status = "ok") =>
        Range(previous_info.all_excluded) \subseteq Range(exclusion_info.all_excluded)

(* C13: with a category's auto-detect toggle off, the columns of its        *)
(* explicit list and the table columns matched by its custom patterns are   *)
(* still classified in the category and excluded.                           *)
C13_ExplicitAndCustomHonoredWhenAutoOff ==
    (Classified /\ exclusion_info.status = "ok") =>
        /\ ~options.auto_detect_timestamps =>
              (Range(options.explicit_timestamp_columns)
                 \cup CustomMatches(options.timestamp_patterns))
                 \subseteq (exclusion_info.timestamp_columns
                              \cap Range(exclusion_info.all_excluded))
        /\ ~options.auto_detect_metadata =>
              (Range(options.explicit_metadata_columns)
                 \cup CustomMatches(options.metadata_patterns))
                 \subseteq (exclusion_info.metadata_columns
                              \cap Range(exclusion_info.all_excluded))
        /\ ~options.auto_detect_sequences =>
              (Range(options.explicit_sequence_columns)
                 \cup CustomMatches(options.sequence_patterns))
                 \subseteq (exclusion_info.sequence_columns
                              \cap Range(exclusion_info.all_excluded))

(* some sampled value of the column matches a user-supplied UUID pattern    *)
ValuesMatchUserPattern(c) ==
    \E i \in 1..Len(rows1), k \in 1..Len(options.uuid_patterns) :
        /\ Get(rows1[i], c).t # "null"
        /\ ValueMatches(options.uuid_patterns[k], StrOf(Get(rows1[i], c)))

(* C14: with auto_detect_uuids off, a column is classified UUID only if it  *)
(* is in the explicit UUID-column list or its values match a user-supplied  *)
(* UUID pattern.                                                            *)
C14_UuidAutoDetectOff ==
    (Classified /\ exclusion_info.status = "ok" /\ ~options.auto_detect_uuids) =>
        \A c \in Range(exclusion_info.uuid_columns) :
            \/ Lower(c) \in {Lower(e) : e \in Range(options.explicit_uuid_columns)}
            \/ ValuesMatchUserPattern(c)

(* C15: the final excluded list holds each column name at most once.        *)
C15_ExcludedListHasNoDuplicates ==
    (Classified /\ exclusion_info.status = "ok") =>
        \A i, j \in 1..Len(exclusion_info.all_excluded) :
            i # j => exclusion_info.all_excluded[i] # exclusion_info.all_excluded[j]

(* two rows of the table that differ at most in UUID-classified columns     *)
DifferOnlyInUuidColumns(a, b) ==
    /\ Keys(a) = Keys(b)
    /\ \A c \in Keys(a) \ Range(exclusion_info.uuid_columns) : Get(a, c) = Get(b, c)

(* C16: in include_with_tracking mode two rows that differ only in UUID-    *)
(* classified columns have the same fingerprint, a table whose two sides    *)
(* hold one such row each has no only-in rows, and the UUID statistics are  *)
(* collected.                                                               *)
C16_TrackingKeepsUuidOutOfFingerprint ==
    (/\ Classified /\ exclusion_info.status = "ok"
     /\ options.uuid_comparison_mode = "include_with_tracking") =>
        /\ \A i \in 1..Len(rows1), j \in 1..Len(rows2) :
              DifferOnlyInUuidColumns(rows1[i], rows2[j]) =>
                  get_row_hash(rows1[i], exclude_columns)
                      = get_row_hash(rows2[j], exclude_columns)
        /\ (/\ Len(rows1) = 1 /\ Len(rows2) = 1
            /\ DifferOnlyInUuidColumns(rows1[1], rows2[1])) =>
                  /\ table_comparison.rows_only_in_db1 = <<>>
                  /\ table_comparison.rows_only_in_db2 = <<>>
        /\ exclusion_info.uuid_columns # <<>> => uuid_statistics # None

(* C17: an invalid custom pattern in a pattern list does not abort the      *)
(* classification; the valid patterns of the list are still applied to      *)
(* every column.                                                            *)
C17_InvalidPatternSkipped ==
    Classified =>
        /\ exclusion_info.status = "ok"
        /\ CustomMatches(options.excluded_column_patterns)
              \subseteq exclusion_info.excluded_columns
        /\ options.auto_detect_timestamps =>
              CustomMatches(options.timestamp_patterns)
                  \subseteq exclusion_info.timestamp_columns
        /\ options.auto_detect_metadata =>
              CustomMatches(options.metadata_patterns)
                  \subseteq exclusion_info.metadata_columns
        /\ options.auto_detect_sequences =>
              CustomMatches(options.sequence_patterns)
                  \subseteq exclusion_info.sequence_columns

(* the invalid patterns that classification skipped                         *)
SkippedPatterns ==
    {options.excluded_column_patterns[i] :
        i \in {j \in 1..Len(options.excluded_column_patterns) :
                  ReInvalid(options.excluded_column_patterns[j])}}

(* the warnings a result object carries                                     *)
WarningsOf(result) ==
    IF "warnings" \in DOMAIN result THEN result.warnings ELSE {}

(* C18: after a run in which an invalid pattern was skipped, the warnings   *)
(* exposed with the results are non-empty and name that pattern.            *)
C18_SkippedPatternRecordedAsWarning ==
    (Classified /\ exclusion_info.status = "ok") =>
        SkippedPatterns \subseteq
            (WarningsOf(exclusion_info) \cup WarningsOf(table_comparison))

-----------------------------------------------------------------------------
(* Unique-identifier normalization specification: a table with the UUID     *)
(* column ext_uuid, its rows on both sides and the normalization rules are  *)
(* drawn from bounded sets; compare_normalized_unique_ids is called on the  *)
(* data with a list of UUID columns, and compare_table_data compares the    *)
(* table in include_with_tracking mode.                                     *)

MaxIdRows == 2

TextReport001 == TextReport \o <<"-", "0", "0", "1">>
TextRecord001 == TextRecord \o <<"-", "0", "0", "1">>
TextRecord002 == TextRecord \o <<"-", "0", "0", "2">>

TableIds == <<Column("Note", "TEXT", FALSE), Column("ext_uuid", "TEXT", FALSE),
              Column("code", "TEXT", FALSE)>>

IdRow(uuid, code) ==
    <<Cell("Note", PyStr(TextX)), Cell("ext_uuid", uuid), Cell("code", code)>>

IdRowPool ==
    {IdRow(PyNone, PyNone),
     IdRow(PyStr(TextReport001), PyNone),
     IdRow(PyStr(TextRecord001), PyNone),
     IdRow(PyStr(TextRecord002), PyStr(TextRecord001))}

(* {'pattern': r'^(report|record)-(\d+)$', 'replacement': r'id-\k'}         *)
RuleIdGroup(k) == [pattern |-> PatternPrefixed, replacement |-> <<"i", "d", "-", GroupRef(k)>>]

NormalizeRuleLists == {<<>>, <<RuleIdGroup(1)>>, <<RuleIdGroup(2)>>}

UuidColumnLists == {<<>>, <<"ext_uuid">>, <<"ext_uuid", "code">>}

(* ComparisonOptions() with its defaults, but for the fields given          *)
TrackingOptions(rules) ==
    [auto_detect_uuids      |-> TRUE,
     explicit_uuid_columns  |-> <<>>,
     uuid_patterns          |-> <<>>,
     uuid_comparison_mode   |-> "include_with_tracking",
     auto_detect_timestamps |-> TRUE,
     auto_detect_metadata   |-> TRUE,
     auto_detect_sequences  |-> TRUE,
     excluded_columns       |-> <<>>,
     unique_id_normalize_patterns |-> rules]
    @@ [l \in {"explicit_timestamp_columns", "explicit_metadata_columns",
               "explicit_sequence_columns"} |-> <<>>]
    @@ [l \in PatternLists |-> <<>>]

InitNormalize ==
    /\ table_structure = TableIds
    /\ rows1 \in SeqsUpTo(IdRowPool, MaxIdRows)
    /\ rows2 \in SeqsUpTo(IdRowPool, MaxIdRows)
    /\ \E rules \in NormalizeRuleLists : options = TrackingOptions(rules)
    /\ exclusion_info = None /\ previous_info = None /\ uuid_statistics = None
    /\ TrackIdle
    /\ exclude_columns = {}
    /\ matching_result = None /\ table_comparison = None
    /\ row1 = <<>> /\ row2 = <<>> /\ hash1 = <<>> /\ hash2 = <<>> /\ field_differences = {}
    /\ pc = "input"
    /\ db = None /\ table_names = <<>>
    /\ conn1 = 0 /\ conn2 = 0 /\ connections = None /\ task = None
    /\ table_results = None /\ total_differences = 0
    /\ data_outcome = "none" /\ error = None /\ outcome = "none"

(* a call of compare_normalized_unique_ids(data1, data2, uuid_columns,      *)
(* options); the column list is kept with the result                        *)
CompareNormalizedUniqueIds(uuid_columns) ==
    /\ pc = "input"
    /\ pc' = "normalized"
    /\ normalized_comparison' =
          [uuid_columns |-> uuid_columns,
           result |-> compare_normalized_unique_ids(rows1, rows2, uuid_columns, options)]
    /\ UNCHANGED <<rowVars, matchVars, runVars, exclude_columns, table_structure,
                   exclusion_info, previous_info, uuid_statistics,
                   unique_id, normalized_id, moreVars>>

NextNormalize ==
    \/ \E uuid_columns \in UuidColumnLists : CompareNormalizedUniqueIds(uuid_columns)
    \/ CompareTable

SpecNormalize == InitNormalize /\ [][NextNormalize]_vars

(* the set of normalized non-null values of column c in a dataset           *)
NormalizedSet(rows, c) ==
    {normalize_unique_id(StrOf(Get(rows[i], c)), options.unique_id_normalize_patterns) :
        i \in {j \in 1..Len(rows) : Get(rows[j], c).t # "null"}}

ExpectedPercentage(c) ==
    LET NA == NormalizedSet(rows1, c)
        NB == NormalizedSet(rows2, c)
    IN  IF NA = {} /\ NB = {} THEN [num |-> 0, den |-> 1]
        ELSE Percentage(Cardinality(NA \cap NB), Max(Cardinality(NA), Cardinality(NB)))

(* C21 as claimed: for a UUID column, compare_normalized_unique_ids reports *)
(* match_percentage = 100 * |NA /\ NB| / max(|NA|, |NB|) over the sets of   *)
(* normalized non-null values of the column, and 0 when there is nothing to *)
(* compare.                                                                 *)
C21_MatchPercentageAlwaysReported ==
    (pc = "normalized" /\ Len(normalized_comparison.uuid_columns) = 1) =>
        /\ "match_percentage" \in DOMAIN normalized_comparison.result
        /\ normalized_comparison.result.match_percentage =
              ExpectedPercentage(normalized_comparison.uuid_columns[1])

(* C21 as amended: for one UUID column and two non-empty datasets,          *)
(* match_percentage = 100 * |NA /\ NB| / max(|NA|, |NB|), and 0 when the    *)
(* column has no value on a side; when a dataset or the column list is      *)
(* empty the result holds the two counts, both 0, and no match_percentage.  *)
C21_MatchPercentage ==
    pc = "normalized" =>
        LET result == normalized_comparison.result
            cols   == normalized_comparison.uuid_columns
        IN  IF cols = <<>> \/ rows1 = <<>> \/ rows2 = <<>>
            THEN /\ DOMAIN result = {"normalized_matches", "total_comparisons"}
                 /\ result.normalized_matches = 0
                 /\ result.total_comparisons = 0
            ELSE Len(cols) = 1 =>
                    /\ "match_percentage" \in DOMAIN result
                    /\ result.match_percentage = ExpectedPercentage(cols[1])

C21_Witness ==
    /\ pc = "normalized"
    /\ normalized_comparison.uuid_columns = <<"ext_uuid">>
    /\ "match_percentage" \in DOMAIN normalized_comparison.result
    /\ normalized_comparison.result.match_percentage = [num |-> 50, den |-> 1]
    /\ Cardinality(NormalizedSet(rows1, "ext_uuid")) = 2

(* Scenario D: the UUID column holds "report-001" on side A and             *)
(* "record-001" on side B, the mode is include_with_tracking and the single *)
(* normalization rule is ^(report|record)-(\d+)$ -> id-\k                   *)
ScenarioD(k) ==
    /\ rows1 = <<IdRow(PyStr(TextReport001), PyNone)>>
    /\ rows2 = <<IdRow(PyStr(TextRecord001), PyNone)>>
    /\ options.uuid_comparison_mode = "include_with_tracking"
    /\ options.unique_id_normalize_patterns = <<RuleIdGroup(k)>>

(* what the results say about the normalized match of the tracked column:   *)
(* the percentage of compare_normalized_unique_ids and the                  *)
(* normalized_match_count of the table's UUIDStatistics                     *)
FullNormalizedMatch ==
    /\ (pc = "normalized" /\ normalized_comparison.uuid_columns = <<"ext_uuid">>) =>
          /\ "match_percentage" \in DOMAIN normalized_comparison.result
          /\ normalized_comparison.result.match_percentage = [num |-> 100, den |-> 1]
    /\ pc = "compared" =>
          /\ uuid_statistics # None
          /\ uuid_statistics.uuid_columns = <<"ext_uuid">>
          /\ uuid_statistics.normalized_match_count = 1

(* C22 as claimed: in Scenario D with the replacement id-\1 the normalized  *)
(* match reported for the table is 100 percent.                             *)
C22_ScenarioD_ReplacementGroup1 == ScenarioD(1) => FullNormalizedMatch

(* C22 as amended: in Scenario D with the replacement id-\2 (the digits)    *)
(* compare_normalized_unique_ids reports match_percentage 100 and the       *)
(* table's result records normalized_match_count = 1 of 1 value per side.   *)
C22_ScenarioD_ReplacementGroup2 ==
    ScenarioD(2) =>
        /\ FullNormalizedMatch
        /\ pc = "compared" =>
              /\ uuid_statistics.total_uuid_values_db1 = 1
              /\ uuid_statistics.total_uuid_values_db2 = 1

C22_Witness ==
    /\ ScenarioD(2)
    /\ pc = "compared"
    /\ uuid_statistics # None
    /\ uuid_statistics.normalized_match_count = 1
    /\ table_comparison # None

-----------------------------------------------------------------------------
(* Normalization rule specification: a unique identifier and a list of      *)
(* normalization rules are drawn from bounded sets and _normalize_unique_id *)
(* is applied.                                                              *)

MaxRules == 3

RuleReportToRecord == [pattern |-> PatternReportHead, replacement |-> TextRecord]
RuleInvalidPattern == [pattern |-> PatternInvalid, replacement |-> TextX]
RuleInvalidGroup   == [pattern |-> PatternReportHead, replacement |-> <<GroupRef(1)>>]
RuleNoReplacement  == [pattern |-> PatternReportHead]
RuleNoPattern      == [replacement |-> TextX]

RulePool == {RuleIdGroup(1), RuleIdGroup(2), RuleReportToRecord, RuleInvalidPattern,
             RuleInvalidGroup, RuleNoReplacement, RuleNoPattern}

UniqueIdPool == {TextReport001, TextRecord002, TextX}

InitRules ==
    /\ unique_id \in UniqueIdPool
    /\ \E rules \in SeqsUpTo(RulePool, MaxRules) :
          options = [unique_id_normalize_patterns |-> rules]
    /\ normalized_id = <<>> /\ normalized_comparison = None
    /\ MoreIdle
    /\ table_structure = None /\ exclusion_info = None
    /\ previous_info = None /\ uuid_statistics = None
    /\ DataIdle
    /\ pc = "input"
    /\ db = None /\ table_names = <<>>
    /\ conn1 = 0 /\ conn2 = 0 /\ connections = None /\ task = None
    /\ table_results = None /\ total_differences = 0
    /\ data_outcome = "none" /\ error = None /\ outcome = "none"

NormalizeUniqueId ==
    /\ pc = "input"
    /\ pc' = "normalized_id"
    /\ normalized_id' = normalize_unique_id(unique_id, options.unique_id_normalize_patterns)
    /\ UNCHANGED <<rowVars, matchVars, runVars, exclude_columns, table_structure,
                   exclusion_info, previous_info, uuid_statistics,
                   normalized_comparison, unique_id, moreVars>>

NextRules == NormalizeUniqueId

SpecRules == InitRules /\ [][NextRules]_vars

(* a rule that has both entries, whose pattern compiles and whose           *)
(* replacement refers to groups of the pattern only                         *)
WellFormedRule(rule) ==
    /\ DOMAIN rule = {"pattern", "replacement"}
    /\ ~ReSub(rule.pattern, rule.replacement, <<>>).raised

RECURSIVE SubstituteInOrder(_, _)
SubstituteInOrder(rules, cs) ==
    IF rules = <<>> THEN cs
    ELSE SubstituteInOrder(Tail(rules),
                           ReSub(Head(rules).pattern, Head(rules).replacement, cs).s)

(* C27: normalization applies the rules in list order, each on the output   *)
(* of the previous one; a rule with an invalid regex, or one missing its    *)
(* pattern or replacement, is skipped without error and every later rule is *)
(* still applied: the result is that of substituting with the well-formed   *)
(* rules alone, in their order.                                             *)
C27_RulesInOrderInvalidSkipped ==
    pc = "normalized_id" =>
        /\ error = None
        /\ normalized_id =
              SubstituteInOrder(SelectSeq(options.unique_id_normalize_patterns,
                                          WellFormedRule),
                                unique_id)

C27_Witness ==
    /\ pc = "normalized_id"
    /\ unique_id = TextReport001
    /\ options.unique_id_normalize_patterns =
          <<RuleReportToRecord, RuleInvalidPattern, RuleIdGroup(1)>>
    /\ normalized_id = <<"i", "d", "-">> \o TextRecord
    /\ normalize_unique_id(unique_id, <<RuleIdGroup(1), RuleReportToRecord>>)
          = <<"i", "d", "-">> \o TextReport

-----------------------------------------------------------------------------
(* Summary specification: the databases hold two common tables with the     *)
(* UUID column ext_uuid, whose rows are drawn from bounded sets; compare()  *)
(* compares the data of every table in include_with_tracking mode (schema   *)
(* comparison switched off) and generates the summary; then one row that    *)
(* carries a UUID value is deleted from one side and compare() runs again.  *)

MaxSummaryRows == 2

SummaryTables == {1, 2}

SummaryRowPool == {IdRow(PyNone, PyNone), IdRow(PyStr(TextReport001), PyNone)}

(* DataComparator.compare_table_data as a whole: the TableDataComparison    *)
table_data_comparison(ts, data1, data2, o) ==
    LET info == get_excluded_columns_info(ts, data1, o)
        excl == Range(info.all_excluded)
        m    == find_matching_rows(data1, data2, excl)
    IN  compare_table_data(data1, data2, excl, m)
            @@ [uuid_statistics |-> UuidStatisticsOf(data1, data2, info.uuid_columns, o)]

(* DataComparator.compare_all_tables: table_results                         *)
all_table_results(database, o) ==
    [t \in DOMAIN database |->
        table_data_comparison(database[t].table, database[t].data1, database[t].data2, o)]

DifferenceCount(tc) ==
    Len(tc.rows_only_in_db1) + Len(tc.rows_only_in_db2) + Len(tc.rows_with_differences)

(* DatabaseComparator._generate_summary(None, data_result)                  *)
generate_summary(results) ==
    LET identical == {t \in DOMAIN results : DifferenceCount(results[t]) = 0}
        tracked   == {t \in DOMAIN results : results[t].uuid_statistics # None}
        Tracked(t, field) == IF t \in tracked THEN results[t].uuid_statistics[field] ELSE 0
    IN  [total_tables            |-> Len(results),
         identical_tables        |-> Cardinality(identical),
         tables_with_differences |-> Len(results) - Cardinality(identical),
         total_rows_compared     |->
             SumSeq([t \in DOMAIN results |->
                        results[t].row_count_db1 + results[t].row_count_db2]),
         total_differences_found |->
             SumSeq([t \in DOMAIN results |-> DifferenceCount(results[t])]),
         total_uuid_columns      |->
             SumSeq([t \in DOMAIN results |->
                        IF t \in tracked THEN Len(results[t].uuid_statistics.uuid_columns)
                        ELSE 0]),
         total_uuid_values_db1   |->
             SumSeq([t \in DOMAIN results |-> Tracked(t, "total_uuid_values_db1")]),
         total_uuid_values_db2   |->
             SumSeq([t \in DOMAIN results |-> Tracked(t, "total_uuid_values_db2")]),
         uuid_integrity_check    |->
             \A t \in tracked :
                 results[t].uuid_statistics.total_uuid_values_db1
                     = results[t].uuid_statistics.total_uuid_values_db2]

InitSummary ==
    /\ db \in [SummaryTables ->
                 [table : {TableIds},
                  data1 : SeqsUpTo(SummaryRowPool, MaxSummaryRows - 1),
                  data2 : SeqsUpTo(SummaryRowPool, MaxSummaryRows)]]
    /\ options = TrackingOptions(<<>>)
    /\ table_results = None /\ total_differences = 0
    /\ summary = None /\ previous_info = None
    /\ steps = <<>> /\ uuid_handler = None
    /\ normalized_comparison = None /\ unique_id = <<>> /\ normalized_id = <<>>
    /\ table_structure = None /\ exclusion_info = None /\ uuid_statistics = None
    /\ DataIdle
    /\ pc = "input"
    /\ table_names = <<>>
    /\ conn1 = 0 /\ conn2 = 0 /\ connections = None /\ task = None
    /\ data_outcome = "none" /\ error = None /\ outcome = "none"

(* compare() on the database: _compare_data, then _generate_summary         *)
CompareUnder(database) ==
    /\ table_results' = all_table_results(database, options)
    /\ total_differences' =
          SumSeq([t \in DOMAIN database |-> DifferenceCount(table_results'[t])])
    /\ summary' = generate_summary(table_results')

Compare ==
    /\ pc \in {"input", "deleted"}
    /\ pc' = IF pc = "input" THEN "summarized" ELSE "resummarized"
    /\ CompareUnder(db)
    /\ UNCHANGED <<db, previous_info>>
    /\ UNCHANGED <<rowVars, matchVars, exclude_columns, options, table_names, conn1,
                   conn2, connections, task, data_outcome, error, outcome,
                   table_structure, exclusion_info, uuid_statistics,
                   normalized_comparison, unique_id, normalized_id, steps, uuid_handler>>

RemoveAt(s, i) == SubSeq(s, 1, i - 1) \o SubSeq(s, i + 1, Len(s))

(* row i of the given side of table t carries a value in a column that the  *)
(* last run classified as UUID                                              *)
CarriesUuidValue(t, side, i) ==
    /\ table_results[t].uuid_statistics # None
    /\ \E c \in Range(table_results[t].uuid_statistics.uuid_columns) :
          Get(db[t][side][i], c).t # "null"

(* Between two runs of compare(), one row carrying a UUID value is deleted  *)
(* from one side of one table; the summary of the run before is kept.       *)
DeleteUuidRow(t, side, i) ==
    /\ pc = "summarized"
    /\ i \in 1..Len(db[t][side])
    /\ CarriesUuidValue(t, side, i)
    /\ pc' = "deleted"
    /\ db' = [db EXCEPT ![t][side] = RemoveAt(@, i)]
    /\ previous_info' = summary
    /\ UNCHANGED <<table_results, total_differences, summary>>
    /\ UNCHANGED <<rowVars, matchVars, exclude_columns, options, table_names, conn1,
                   conn2, connections, task, data_outcome, error, outcome,
                   table_structure, exclusion_info, uuid_statistics,
                   normalized_comparison, unique_id, normalized_id, steps, uuid_handler>>

NextSummary ==
    \/ Compare
    \/ \E t \in SummaryTables, side \in {"data1", "data2"}, i \in 1..MaxSummaryRows :
          DeleteUuidRow(t, side, i)

SpecSummary == InitSummary /\ [][NextSummary]_vars

(* C23: under include_with_tracking, when the total non-null                *)
(* UUID-classified value counts of the two sides are equal the summary's    *)
(* uuid_integrity_check is true; when one row carrying a UUID value is      *)
(* deleted from one side of such a pair, uuid_integrity_check is false.     *)
C23_UuidIntegritySignal ==
    /\ (pc \in {"summarized", "resummarized"}
           /\ summary.total_uuid_values_db1 = summary.total_uuid_values_db2) =>
          summary.uuid_integrity_check
    /\ (pc = "resummarized"
           /\ previous_info.total_uuid_values_db1 = previous_info.total_uuid_values_db2) =>
          ~summary.uuid_integrity_check

-----------------------------------------------------------------------------
(* Table task specification: compare_table_data taken one step at a time,   *)
(* in the order of its statements, on a table whose rows are drawn from     *)
(* bounded sets, in exclude or include_with_tracking mode.                  *)

InitSteps ==
    /\ table_structure = TableIds
    /\ rows1 \in SeqsUpTo(IdRowPool, MaxIdRows)
    /\ rows2 \in SeqsUpTo(IdRowPool, MaxIdRows)
    /\ \E mode \in {"exclude", "include_with_tracking"} :
          options = [TrackingOptions(<<>>) EXCEPT !.uuid_comparison_mode = mode]
    /\ exclusion_info = None /\ previous_info = None /\ uuid_statistics = None
    /\ TrackIdle
    /\ exclude_columns = {}
    /\ matching_result = None /\ table_comparison = None
    /\ row1 = <<>> /\ row2 = <<>> /\ hash1 = <<>> /\ hash2 = <<>> /\ field_differences = {}
    /\ pc = "input"
    /\ db = None /\ table_names = <<>>
    /\ conn1 = 0 /\ conn2 = 0 /\ connections = None /\ task = None
    /\ table_results = None /\ total_differences = 0
    /\ data_outcome = "none" /\ error = None /\ outcome = "none"

(* "Collect UUID statistics if in tracking mode": the condition             *)
TracksUuids ==
    /\ options.uuid_comparison_mode = "include_with_tracking"
    /\ exclusion_info.uuid_columns # <<>>

(* get_excluded_columns_info on the structure and the sample of db1         *)
StepClassify ==
    /\ pc = "input"
    /\ exclusion_info' = get_excluded_columns_info(table_structure, rows1, options)
    /\ IF exclusion_info'.status = "raised"
       THEN /\ pc' = "failed"
            /\ error' = [kind |-> "re.error", table |-> 0]
            /\ exclude_columns' = {}
       ELSE /\ pc' = "classified"
            /\ error' = None
            /\ exclude_columns' = Range(exclusion_info'.all_excluded)
    /\ steps' = Append(steps, "Classifying")
    /\ UNCHANGED <<rowVars, matchVars, options, db, table_names, conn1, conn2,
                   connections, task, table_results, total_differences, data_outcome,
                   outcome, table_structure, previous_info, uuid_statistics,
                   normalized_comparison, unique_id, normalized_id, summary,
                   uuid_handler>>

(* collect_uuid_statistics on both sides, compare_normalized_unique_ids and *)
(* the UUIDStatistics, before find_matching_rows is called                  *)
StepTrackUuids ==
    /\ pc = "classified"
    /\ TracksUuids
    /\ pc' = "tracked"
    /\ uuid_statistics' = UuidStatisticsOf(rows1, rows2, exclusion_info.uuid_columns,
                                           options)
    /\ steps' = Append(steps, "TrackingUUIDs")
    /\ UNCHANGED <<rowVars, matchVars, runVars, exclude_columns, table_structure,
                   exclusion_info, previous_info, normalized_comparison, unique_id,
                   normalized_id, summary, uuid_handler>>

StepMatch ==
    /\ \/ pc = "tracked"
       \/ pc = "classified" /\ ~TracksUuids
    /\ pc' = "matched"
    /\ matching_result' = find_matching_rows(rows1, rows2, exclude_columns)
    /\ steps' = Append(steps, "Matching")
    /\ UNCHANGED <<rowVars, rows1, rows2, table_comparison, runVars, exclude_columns,
                   table_structure, exclusion_info, previous_info, uuid_statistics,
                   normalized_comparison, unique_id, normalized_id, summary,
                   uuid_handler>>

(* identify_differences on every matched pair, then the TableDataComparison *)
StepDiffer ==
    /\ pc = "matched"
    /\ pc' = "compared"
    /\ table_comparison' = compare_table_data(rows1, rows2, exclude_columns,
                                              matching_result)
    /\ steps' = Append(steps, "Differing")
    /\ UNCHANGED <<rowVars, rows1, rows2, matching_result, runVars, exclude_columns,
                   table_structure, exclusion_info, previous_info, uuid_statistics,
                   normalized_comparison, unique_id, normalized_id, summary,
                   uuid_handler>>

NextSteps == StepClassify \/ StepTrackUuids \/ StepMatch \/ StepDiffer

SpecSteps == InitSteps /\ [][NextSteps]_vars

(* step a has been performed, and before every performance of step b        *)
Before(a, b) ==
    \A j \in 1..Len(steps) : steps[j] = b => \E i \in 1..(j - 1) : steps[i] = a

(* C24: within one table task the steps run in the order Classifying,       *)
(* Matching, Differing, then optional TrackingUUIDs: matching starts only   *)
(* after classification has produced the excluded set, differing only after *)
(* matching has produced the pairs, and UUID statistics collection only     *)
(* after differing has finished.                                            *)
C24_StepOrder ==
    /\ Before("Classifying", "Matching")
    /\ pc \in {"matched", "compared"} => exclusion_info # None
    /\ Before("Matching", "Differing")
    /\ pc = "compared" => matching_result # None
    /\ Before("Differing", "TrackingUUIDs")

-----------------------------------------------------------------------------
(* UUID handler specification: a DatabaseComparator is constructed with a   *)
(* list of UUID columns; then set_comparison_options, compare() and         *)
(* UUIDHandler.add_custom_pattern are called in any order, up to MaxCalls   *)
(* calls.  steps is the history of the calls, previous_info the handler as  *)
(* it was before the last call.                                             *)

MaxCalls == 3

(* UUIDHandler.default_patterns                                             *)
default_patterns ==
    <<"^[0-9a-f]{8}-[0-9a-f]{4}-[0-9a-f]{4}-[0-9a-f]{4}-[0-9a-f]{12}$",
      "^[0-9a-f]{32}$",
      "^[0-9A-F]{8}-[0-9A-F]{4}-[0-9A-F]{4}-[0-9A-F]{4}-[0-9A-F]{12}$",
      "^[0-9A-F]{32}$">>

(* UUIDHandler.__init__; detected_uuid_columns is the set of its entries    *)
UUIDHandler(explicit_uuid_columns, custom_patterns) ==
    [explicit_uuid_columns |-> Range(explicit_uuid_columns),
     custom_patterns       |-> custom_patterns,
     all_patterns          |-> default_patterns \o custom_patterns,
     detected_uuid_columns |-> {}]

(* UUIDHandler.add_explicit_uuid_column                                     *)
add_explicit_uuid_column(handler, column_name) ==
    [handler EXCEPT !.explicit_uuid_columns = @ \cup {column_name}]

(* The pattern is appended before it is validated.                          *)
add_custom_pattern_appendFirst(handler, pattern) ==
    [raised  |-> ReInvalid(pattern),
     handler |-> [handler EXCEPT !.custom_patterns = Append(@, pattern)]]

(* UUIDHandler.add_custom_pattern: the handler after the call, and whether  *)
(* the call raised UUIDDetectionError                                       *)
add_custom_pattern(handler, pattern) ==
    IF ReInvalid(pattern)
    THEN [raised |-> TRUE, handler |-> handler]
    ELSE [raised  |-> FALSE,
          handler |-> [handler EXCEPT
                          !.custom_patterns = Append(@, pattern),
                          !.all_patterns =
                              default_patterns \o Append(handler.custom_patterns, pattern)]]

(* "for col in options.explicit_uuid_columns: add_explicit_uuid_column"     *)
RECURSIVE AddExplicitColumns(_, _)
AddExplicitColumns(handler, columns) ==
    IF columns = <<>> THEN handler
    ELSE AddExplicitColumns(add_explicit_uuid_column(handler, Head(columns)), Tail(columns))

(* "for pattern in options.uuid_patterns: add_custom_pattern", left at the  *)
(* first call that raises                                                   *)
RECURSIVE AddCustomPatterns(_, _)
AddCustomPatterns(handler, patterns) ==
    IF patterns = <<>> THEN [raised |-> FALSE, handler |-> handler]
    ELSE LET r == add_custom_pattern(handler, Head(patterns))
         IN  IF r.raised THEN r ELSE AddCustomPatterns(r.handler, Tail(patterns))

(* DatabaseComparator.set_comparison_options, on the shared handler         *)
set_comparison_options(handler, o) ==
    AddCustomPatterns(AddExplicitColumns(handler, o.explicit_uuid_columns),
                      o.uuid_patterns)

HandlerOptions ==
    [explicit_uuid_columns : {<<>>, <<"code">>, <<"token">>},
     uuid_patterns         : {<<>>, <<PatternReport>>, <<PatternInvalid>>}]

UUIDDetectionError == [kind |-> "UUIDDetectionError", table |-> 0]

InitHandler ==
    /\ \E uuid_columns \in {<<>>, <<"id">>} :
          /\ uuid_handler = UUIDHandler(uuid_columns, <<>>)
          /\ steps = <<[op |-> "__init__", uuid_columns |-> uuid_columns]>>
    /\ options = [explicit_uuid_columns |-> <<>>, uuid_patterns |-> <<>>]
    /\ previous_info = None
    /\ error = NoError
    /\ pc = "ready"
    /\ summary = None
    /\ normalized_comparison = None /\ unique_id = <<>> /\ normalized_id = <<>>
    /\ table_structure = None /\ exclusion_info = None /\ uuid_statistics = None
    /\ DataIdle
    /\ db = None /\ table_names = <<>>
    /\ conn1 = 0 /\ conn2 = 0 /\ connections = None /\ task = None
    /\ table_results = None /\ total_differences = 0
    /\ data_outcome = "none" /\ outcome = "none"

SetComparisonOptions(o) ==
    /\ Len(steps) <= MaxCalls
    /\ options' = o
    /\ previous_info' = uuid_handler
    /\ \E r \in {set_comparison_options(uuid_handler, o)} :
          /\ uuid_handler' = r.handler
          /\ error' = IF r.raised THEN UUIDDetectionError ELSE NoError
    /\ steps' = Append(steps, [op |-> "set_comparison_options", options |-> o])
    /\ UNCHANGED <<pc, rowVars, matchVars, exclude_columns, db, table_names, conn1,
                   conn2, connections, task, table_results, total_differences,
                   data_outcome, outcome, table_structure, exclusion_info,
                   uuid_statistics, normalized_comparison, unique_id, normalized_id,
                   summary>>

(* compare(): of the handler it touches only the cache of detected columns  *)
CompareWithHandler ==
    /\ Len(steps) <= MaxCalls
    /\ previous_info' = uuid_handler
    /\ uuid_handler' =
          [uuid_handler EXCEPT !.detected_uuid_columns =
              {[table   |-> "t",
                columns |-> Range(detect_uuid_columns(TableIds, <<>>,
                               [explicit_uuid_columns |->
                                    SetToList(uuid_handler.explicit_uuid_columns),
                                uuid_patterns |-> uuid_handler.custom_patterns]))]}]
    /\ error' = NoError
    /\ steps' = Append(steps, [op |-> "compare"])
    /\ UNCHANGED <<pc, options, rowVars, matchVars, exclude_columns, db, table_names,
                   conn1, conn2, connections, task, table_results, total_differences,
                   data_outcome, outcome, table_structure, exclusion_info,
                   uuid_statistics, normalized_comparison, unique_id, normalized_id,
                   summary>>

AddCustomPattern(pattern) ==
    /\ Len(steps) <= MaxCalls
    /\ previous_info' = uuid_handler
    /\ \E r \in {add_custom_pattern(uuid_handler, pattern)} :
          /\ uuid_handler' = r.handler
          /\ error' = IF r.raised THEN UUIDDetectionError ELSE NoError
    /\ steps' = Append(steps, [op |-> "add_custom_pattern", pattern |-> pattern])
    /\ UNCHANGED <<pc, options, rowVars, matchVars, exclude_columns, db, table_names,
                   conn1, conn2, connections, task, table_results, total_differences,
                   data_outcome, outcome, table_structure, exclusion_info,
                   uuid_statistics, normalized_comparison, unique_id, normalized_id,
                   summary>>

NextHandler ==
    \/ \E o \in HandlerOptions : SetComparisonOptions(o)
    \/ CompareWithHandler
    \/ \E pattern \in {PatternReport, PatternInvalid} : AddCustomPattern(pattern)

SpecHandler == InitHandler /\ [][NextHandler]_vars

LastCall == steps[Len(steps)]

CallsOf(op) == {i \in 1..Len(steps) : steps[i].op = op}

NoDuplicates(s) == \A i, j \in 1..Len(s) : s[i] = s[j] => i = j

(* C26: nothing persists between runs.  After set_comparison_options(o1)    *)
(* followed by set_comparison_options(o2), with or without a compare() in   *)
(* between, the explicit UUID columns and custom UUID patterns of the       *)
(* handler are exactly those of o2 together with those given to the         *)
(* constructor, and no pattern is present twice.                            *)
C26_NothingPersistsBetweenRuns ==
    (/\ LastCall.op = "set_comparison_options"
     /\ error = NoError
     /\ Cardinality(CallsOf("set_comparison_options")) >= 2
     /\ CallsOf("add_custom_pattern") = {}) =>
        /\ uuid_handler.explicit_uuid_columns =
              Range(steps[1].uuid_columns) \cup Range(options.explicit_uuid_columns)
        /\ uuid_handler.custom_patterns = options.uuid_patterns
        /\ NoDuplicates(uuid_handler.custom_patterns)

(* C28: add_custom_pattern with an invalid regex raises UUIDDetectionError  *)
(* and leaves the handler unchanged: custom_patterns and all_patterns are   *)
(* the same after the failed call as before it; with a valid regex the      *)
(* pattern is appended to both.                                             *)
C28_AddCustomPattern ==
    LastCall.op = "add_custom_pattern" =>
        IF ReInvalid(LastCall.pattern)
        THEN /\ error = UUIDDetectionError
             /\ uuid_handler.custom_patterns = previous_info.custom_patterns
             /\ uuid_handler.all_patterns = previous_info.all_patterns
             /\ uuid_handler = previous_info
        ELSE /\ error = NoError
             /\ uuid_handler.custom_patterns =
                   Append(previous_info.custom_patterns, LastCall.pattern)
             /\ uuid_handler.all_patterns =
                   Append(previous_info.all_patterns, LastCall.pattern)

C28_Witness ==
    /\ Len(steps) = 3
    /\ steps[2].op = "add_custom_pattern" /\ steps[2].pattern = PatternReport
    /\ steps[3].op = "add_custom_pattern" /\ steps[3].pattern = PatternInvalid
    /\ error = UUIDDetectionError
    /\ uuid_handler.custom_patterns = <<PatternReport>>

-----------------------------------------------------------------------------
(* Row accounting and the partition made by find_matching_rows, on the      *)
(* table-level specification SpecTable.                                     *)

(* C29: in every TableDataComparison returned by compare_table_data,        *)
(* matching_rows is not negative, and on each side matching_rows plus the   *)
(* rows with differences plus the rows only on that side is the row count   *)
(* of that side.                                                            *)
C29_RowAccounting ==
    pc = "compared" =>
        /\ table_comparison.matching_rows >= 0
        /\ table_comparison.matching_rows
              + Len(table_comparison.rows_with_differences)
              + Len(table_comparison.rows_only_in_db1)
            = table_comparison.row_count_db1
        /\ table_comparison.matching_rows
              + Len(table_comparison.rows_with_differences)
              + Len(table_comparison.rows_only_in_db2)
            = table_comparison.row_count_db2

C29_Witness ==
    /\ pc = "compared"
    /\ table_comparison.matching_rows >= 1
    /\ table_comparison.rows_with_differences # <<>>
    /\ table_comparison.rows_only_in_db1 # <<>>
    /\ table_comparison.row_count_db1 > table_comparison.row_count_db2

(* How often the occurrence i is the side-th member of a matched pair or    *)
(* an entry of the only-in list of that side.                               *)
TimesPlaced(i, side, matched_pairs, only_in) ==
    Cardinality({k \in 1..Len(matched_pairs) : matched_pairs[k][side] = i})
      + Cardinality({k \in 1..Len(only_in) : only_in[k] = i})

(* C30: in every result of find_matching_rows each matched pair is a row    *)
(* of rowsA and a row of rowsB with equal fingerprints, every input row     *)
(* occurrence is in exactly one of matched_pairs, only_in_db1 and           *)
(* only_in_db2, and no fingerprint is both among the rows of only_in_db1    *)
(* and among the rows of only_in_db2.                                       *)
C30_MatchingPartition ==
    pc = "compared" =>
        LET fpA == RowHashes(rows1, exclude_columns)
            fpB == RowHashes(rows2, exclude_columns)
            mp  == matching_result.matched_pairs
            o1  == matching_result.only_in_db1
            o2  == matching_result.only_in_db2
        IN  /\ \A k \in 1..Len(mp) :
                   /\ mp[k][1] \in 1..Len(rows1)
                   /\ mp[k][2] \in 1..Len(rows2)
                   /\ fpA[mp[k][1]] = fpB[mp[k][2]]
            /\ Range(o1) \subseteq 1..Len(rows1)
            /\ Range(o2) \subseteq 1..Len(rows2)
            /\ \A i \in 1..Len(rows1) : TimesPlaced(i, 1, mp, o1) = 1
            /\ \A j \in 1..Len(rows2) : TimesPlaced(j, 2, mp, o2) = 1
            /\ {fpA[i] : i \in Range(o1)} \cap {fpB[j] : j \in Range(o2)} = {}

C30_Witness ==
    /\ pc = "compared"
    /\ LET fpA == RowHashes(rows1, exclude_columns)
           fpB == RowHashes(rows2, exclude_columns)
       IN  /\ \E h \in Range(fpA) :
                 /\ Len(OccurrencesOf(fpA, h)) = 2
                 /\ Len(OccurrencesOf(fpB, h)) = 1
           /\ \E i \in Range(matching_result.only_in_db1) :
                 Len(OccurrencesOf(fpA, fpA[i])) = 1
           /\ matching_result.only_in_db2 # <<>>

====
